---- MODULE Spec2Model ----
(***************************************************************************)
(* SecureStorage (src/src/storage/constants.ts): the encrypted key/value   *)
(* store of ZeldWallet with its password lifecycle.                        *)
(*                                                                         *)
(* The persisted state is the two IndexedDB object stores (data, meta);    *)
(* the instance state is the four private fields of the class.  A key is   *)
(* modelled by what determines it: a password-derived key by (password,    *)
(* salt, iterations), a generated key by a fresh identifier.  AES-GCM      *)
(* decryption of a record succeeds exactly under the key that encrypted it.*)
(* Every public method is one action; an input `fail` of the password      *)
(* lifecycle actions names the step at which the call throws.              *)
(***************************************************************************)
EXTENDS Integers, FiniteSets, Sequences, TLC

\* ---------------------------------------------------------------- bounds
MaxSalts == 2
MaxGenKeys == 2
MaxPending == 1
MaxSighashTypes == 2
MaxWindow == 3
MaxNow == 2


\* ------------------------------------------------------------- constants
ITERATIONS == 600000
TestDefaultIterations == 1
LowIterations == 7
HighIterations == ITERATIONS + 100

\* `undefined` for numbers (iteration counts)
Undefined == 0 - 1

MNEMONIC == "mnemonic"
DataKeys == {MNEMONIC, "k1"}
Plaintexts == {"a", "b"}
\* the empty password is the absent password: `if (password)` is false for it
NoPassword == ""
Passwords == {"pw1", "pw2"}

CtorOverrides == {Undefined, LowIterations, HighIterations}
ChangeOptions == {Undefined, HighIterations}

\* process.env / import.meta.env as read by one call: raw is the parsed
\* ZELDWALLET_PBKDF2_ITERATIONS, nodeEnv is NODE_ENV, metaProd is import.meta.env.PROD
Env(raw, nodeEnv, metaProd) == [raw |-> raw, nodeEnv |-> nodeEnv, metaProd |-> metaProd]
DevEnv == Env(Undefined, "other", FALSE)
Envs ==
  { DevEnv,
    Env(LowIterations, "other", FALSE),
    Env(LowIterations, "production", FALSE) }

\* ------------------------------------------------------------ value shapes
NoKey == [kind |-> "none", pw |-> NoPassword, salt |-> 0, iters |-> Undefined, id |-> 0]
\* a derivation whose key depends on the salt and the count but not on the password
PwKeyFromSaltOnly(pw, s, it) ==
  [kind |-> "pw", pw |-> NoPassword, salt |-> s, iters |-> it, id |-> 0]

\* deriveKeyFromPassword(password, salt, iterations): PBKDF2 gives the same key
\* for the same three inputs and a different key otherwise
PwKey(pw, s, it) == [kind |-> "pw", pw |-> pw, salt |-> s, iters |-> it, id |-> 0]
GenKey(i) == [kind |-> "gen", pw |-> NoPassword, salt |-> 0, iters |-> Undefined, id |-> i]

\* a stored EncryptedData: the key and plaintext it was made from, and the
\* condition of the stored object: "ok" as encrypt wrote it, or what was done
\* to its ciphertext bytes ("flipped", "empty"), its IV ("iv") or its version
NoRecord == [present |-> FALSE, key |-> NoKey, pt |-> "a", ct |-> "ok"]
Record(k, v) == [present |-> TRUE, key |-> k, pt |-> v, ct |-> "ok"]

\* meta store, key 'encryption-key': absent, a CryptoKey or a raw envelope
NoStoredKey == [form |-> "none", id |-> 0]
StoredCryptoKey(i) == [form |-> "cryptokey", id |-> i]
StoredEnvelope(i) == [form |-> "envelope", id |-> i]

\* meta store, key 'salt': 0 is absent
NoSalt == 0

\* meta store, key 'metadata'
NoMeta ==
  [present |-> FALSE, hasPassword |-> FALSE, hasBackup |-> FALSE, pbkdf2Iterations |-> Undefined,
   createdAt |-> 0, updatedAt |-> 0]

VARIABLES
  data,                \* STORES.DATA: data key -> encrypted record
  salt,                \* STORES.META[SALT]
  storedKey,           \* STORES.META[ENCRYPTION_KEY]
  meta,                \* STORES.META[METADATA]
  db,                  \* this.db is open
  encryptionKey,       \* this.encryptionKey
  isPasswordProtected, \* this.isPasswordProtected
  pbkdf2Iterations,    \* this.pbkdf2Iterations (constructor override)
  canPersistCryptoKey, \* the platform's IndexedDB can store a CryptoKey
  last,                \* the call that ran last, see Call
  recorded,            \* the highest pbkdf2Iterations the metadata of this store has held
  stamped              \* the highest updatedAt the metadata of this store has held

vars ==
  <<data, salt, storedKey, meta, db, encryptionKey, isPasswordProtected,
    pbkdf2Iterations, canPersistCryptoKey, last, recorded, stamped>>

persisted == <<data, salt, storedKey, meta>>

\* the wallet above the store: key manager and provider (see below)
VARIABLES
  initialized,     \* the key manager holds the seed and the master key (isUnlocked)
  lastProviderId,  \* WBIPProvider.lastProviderId
  currentOptions,  \* WBIPProvider.currentOptions?.id
  accessGrants,    \* WBIPProvider.accessGrants: provider id -> reference of a Set, 0 when absent
  heap,            \* reference -> the origins in that Set
  origin,          \* window.location.origin
  pending,         \* requests waiting for the answer to their confirmation prompt
  addressLookup,   \* the key manager's lookup windows as configured
  reply            \* the call that ended last and how it ended

walletVars ==
  <<initialized, lastProviderId, currentOptions, accessGrants, heap, origin, pending,
    addressLookup, reply>>

\* the clock, and the password-lifecycle call that is suspended at one of its awaits
VARIABLES
  now,             \* Date.now()
  inflight         \* the suspended setPassword or changePassword, see NoCall

stepVars == <<now, inflight>>
allVars == <<vars, walletVars, stepVars>>

\* the metadata row a call writes over the row `existing` it read:
\* createdAt: existing?.createdAt ?? Date.now(), updatedAt: Date.now()
MetadataFrom(existing, hp, hb, it) ==
  [present |-> TRUE, hasPassword |-> hp, hasBackup |-> hb, pbkdf2Iterations |-> it,
   createdAt |-> IF existing.present THEN existing.createdAt ELSE now,
   updatedAt |-> now]

\* a row that takes the time of the write for its createdAt as well
MetadataCreatedNow(hp, hb, it) ==
  [present |-> TRUE, hasPassword |-> hp, hasBackup |-> hb, pbkdf2Iterations |-> it,
   createdAt |-> now, updatedAt |-> now]

\* the row written by a call that read the stored row just before
Metadata(hp, hb, it) == MetadataFrom(meta, hp, hb, it)

\* ------------------------------------------------- iteration resolution
\* a production test that looks at NODE_ENV alone and misses import.meta.env.PROD
isProductionLikeNodeEnvOnly(env) == env.nodeEnv = "production"

isProductionLike(env) == env.nodeEnv = "production" \/ env.metaProd

\* an override lookup that never finds a value
getEnvIterationOverrideNone(env) == Undefined

\* process.env.ZELDWALLET_PBKDF2_ITERATIONS ?? (test environment ? '1' : undefined),
\* parsed; a value that is not positive is dropped, and so is a value below
\* the default when NODE_ENV is production
getEnvIterationOverride(env) ==
  LET parsed == IF env.raw # Undefined THEN env.raw
                ELSE IF env.nodeEnv = "test" THEN TestDefaultIterations
                ELSE Undefined
  IN IF parsed = Undefined THEN Undefined
     ELSE IF parsed <= 0 THEN Undefined
     ELSE IF env.nodeEnv = "production" /\ parsed < ITERATIONS THEN Undefined
     ELSE parsed

\* a resolution that lets the constructor override win over the recorded count
resolveIterationsOverrideFirst(metadata, ctor, env) ==
  IF ctor # Undefined THEN ctor
  ELSE IF metadata.present /\ metadata.pbkdf2Iterations # Undefined
  THEN metadata.pbkdf2Iterations
  ELSE IF getEnvIterationOverride(env) # Undefined THEN getEnvIterationOverride(env)
  ELSE ITERATIONS

resolveIterations(metadata, ctor, env) ==
  IF metadata.present /\ metadata.pbkdf2Iterations # Undefined
  THEN metadata.pbkdf2Iterations
  ELSE LET candidate == IF ctor # Undefined THEN ctor
                        ELSE IF getEnvIterationOverride(env) # Undefined
                             THEN getEnvIterationOverride(env)
                        ELSE ITERATIONS
       IN IF isProductionLike(env) /\ candidate < ITERATIONS THEN ITERATIONS ELSE candidate

Max(a, b) == IF a >= b THEN a ELSE b

\* a normalisation that returns the candidate as it is, without any floor
normalizeIterationsNoFloor(baseIterations, metadata, env) == baseIterations

normalizeIterationsForNewKey(baseIterations, metadata, env) ==
  IF ~metadata.present \/ metadata.pbkdf2Iterations = Undefined
  THEN IF isProductionLike(env) THEN Max(baseIterations, ITERATIONS) ELSE baseIterations
  ELSE Max(baseIterations,
           IF isProductionLike(env) THEN ITERATIONS ELSE metadata.pbkdf2Iterations)

\* ------------------------------------------------------ store primitives
\* a payload test that looks under another key than the sentinel
hasWalletPayloadOtherKey(d) == d["k1"].present

\* a payload test that takes stored metadata for a wallet
hasWalletPayloadOrMetadata(d) == d[MNEMONIC].present \/ meta.present

hasWalletPayload(d) == d[MNEMONIC].present

\* hasPassword(): metadata?.hasPassword ?? false
hasPassword(m) == m.present /\ m.hasPassword

\* exists(): the wallet exists when the sentinel record does
exists(d) == hasWalletPayload(d)

\* updateMetadata: `updates` holds "keep" for a field the call leaves out;
\* pbkdf2Iterations: undefined in `updates` falls through `??` to the old value
updateMetadata(existing, hp, hb, it) ==
  MetadataFrom(existing,
               IF hp # "keep" THEN hp = "true" ELSE existing.hasPassword,
               IF hb # "keep" THEN hb = "true" ELSE existing.hasBackup,
               IF it # Undefined THEN it ELSE existing.pbkdf2Iterations)

\* crypto.subtle.decrypt under key `k`: the plaintext, or the failure
CanDecrypt(k, rec) == rec.present /\ k.kind # "none" /\ rec.key = k /\ rec.ct = "ok"

\* a validation that looks at the ciphertext bytes alone
normalizeEncryptedDataCiphertextOnly(rec) ==
  IF rec.ct = "empty" THEN "Invalid encrypted payload: ciphertext missing" ELSE "none"

\* normalizeEncryptedData: the error it throws for a record with another
\* version, with an IV of the wrong length or without ciphertext bytes
normalizeEncryptedData(rec) ==
  IF rec.ct = "version" THEN "Unsupported encrypted payload version"
  ELSE IF rec.ct = "iv" THEN "Invalid encrypted payload: IV missing or wrong length"
  ELSE IF rec.ct = "empty" THEN "Invalid encrypted payload: ciphertext missing"
  ELSE "none"

InvalidPayload(rec) == rec.present /\ normalizeEncryptedData(rec) # "none"

\* decrypt(encrypted) under key `k`: whether crypto.subtle.decrypt is called
DecryptAttempted(k, rec) == k.kind # "none" /\ ~InvalidPayload(rec)

\* get(key) on the instance whose key is `k`
GetResult(d, k, key) ==
  IF k.kind = "none" THEN "error:not-initialized"
  ELSE IF ~d[key].present THEN "null"
  ELSE IF InvalidPayload(d[key]) THEN "error:invalid-payload"
  ELSE IF CanDecrypt(k, d[key]) THEN d[key].pt
  ELSE "error:decryption"

\* the error get(key) throws, "none" when it returns
GetError(d, k, key) ==
  IF GetResult(d, k, key) \in {"error:not-initialized", "error:decryption",
                              "error:invalid-payload"}
  THEN GetResult(d, k, key) ELSE "none"

\* exportAllDecrypted under key `k` succeeds iff every stored record decrypts
ExportSucceeds(d, k) ==
  k.kind # "none" /\ \A key \in DataKeys : d[key].present => CanDecrypt(k, d[key])

\* a re-encryption that rewrites the sentinel record alone and drops the others
ReEncryptSentinelOnly(d, k) ==
  [key \in DataKeys |->
     IF key = MNEMONIC /\ d[key].present THEN Record(k, d[key].pt) ELSE NoRecord]

\* the records of `d` re-encrypted under key `k` (encrypt of every exported entry)
ReEncrypt(d, k) ==
  [key \in DataKeys |-> IF d[key].present THEN Record(k, d[key].pt) ELSE NoRecord]

HasRecords(d) == \E key \in DataKeys : d[key].present

\* materializeStoredKey: the runtime key of a stored CryptoKey or envelope
materializeStoredKey(stored) == GenKey(stored.id)


\* --------------------------------------------------------------- results
\* randomBytes(SALT_LENGTH) and crypto.subtle.generateKey return a value that
\* is different from every value still held anywhere (in the stores or in the
\* instance); 0 when the model's identifiers are used up
SaltsInUse ==
  {salt, encryptionKey.salt} \cup {data[key].key.salt : key \in DataKeys}
KeyIdsInUse ==
  {storedKey.id, encryptionKey.id} \cup {data[key].key.id : key \in DataKeys}
FreshSalt ==
  IF (1..MaxSalts) \subseteq SaltsInUse THEN 0
  ELSE CHOOSE i \in (1..MaxSalts) \ SaltsInUse : \A j \in (1..MaxSalts) \ SaltsInUse : i <= j
FreshKeyId ==
  IF (1..MaxGenKeys) \subseteq KeyIdsInUse THEN 0
  ELSE CHOOSE i \in (1..MaxGenKeys) \ KeyIdsInUse : \A j \in (1..MaxGenKeys) \ KeyIdsInUse : i <= j

\* what a call leaves behind: the error it threw ("none" when it returned),
\* the instance's key and mode, and the persisted stores; `fresh` tells that
\* the call drew a salt or generated a key that it kept
Outcome(err, k, pp, d, s, sk, m, fresh) ==
  [error |-> err, encryptionKey |-> k, isPasswordProtected |-> pp,
   data |-> d, salt |-> s, storedKey |-> sk, meta |-> m, fresh |-> fresh]

\* the call threw before it assigned or wrote anything
Thrown(err, k, pp) == Outcome(err, k, pp, data, salt, storedKey, meta, {})

\* a key lookup that generates a key whenever none is stored, required or not
getOrCreateStoredKeyAlwaysCreates(requireExistingKey) ==
  IF storedKey.form # "none"
  THEN [error |-> "none", key |-> materializeStoredKey(storedKey), stored |-> storedKey,
        fresh |-> {}]
  ELSE [error |-> "none", key |-> GenKey(FreshKeyId),
        stored |-> IF canPersistCryptoKey THEN StoredCryptoKey(FreshKeyId)
                   ELSE StoredEnvelope(FreshKeyId),
        fresh |-> {FreshKeyId}]

\* getOrCreateStoredKey(requireExistingKey): the runtime key and the stored
\* form it leaves; error when the key is required and missing
getOrCreateStoredKey(requireExistingKey) ==
  IF storedKey.form = "cryptokey"
  THEN [error |-> "none", key |-> materializeStoredKey(storedKey), stored |-> storedKey,
        fresh |-> {}]
  ELSE IF storedKey.form = "envelope"
  THEN \* best-effort migration of the envelope to a stored CryptoKey
       [error |-> "none", key |-> materializeStoredKey(storedKey),
        stored |-> IF canPersistCryptoKey THEN StoredCryptoKey(storedKey.id) ELSE storedKey,
        fresh |-> {}]
  ELSE IF requireExistingKey
  THEN [error |-> "Missing encryption key for passwordless wallet", key |-> NoKey,
        stored |-> storedKey, fresh |-> {}]
  ELSE [error |-> "none", key |-> GenKey(FreshKeyId),
        stored |-> IF canPersistCryptoKey THEN StoredCryptoKey(FreshKeyId)
                   ELSE StoredEnvelope(FreshKeyId),
        fresh |-> {FreshKeyId}]

\* a salt lookup that never fails, so that init goes on to getOrCreateSalt
requireSaltNeverFails(metadata, s) == FALSE

\* metadata?.hasPassword ? requireSalt() : getOrCreateSalt(): requireSalt throws
\* when the store is password-protected and holds no salt
requireSaltFails(metadata, s) == metadata.present /\ metadata.hasPassword /\ s = NoSalt

\* init(password, {readOnly}) on an instance with constructor override `ctor`,
\* key `k` and mode `pp`, reading the environment `env`
init(password, readOnly, ctor, env, k, pp) ==
  LET payload == hasWalletPayload(data) IN
  IF readOnly /\ ~meta.present /\ ~payload
  THEN Thrown("No wallet found", k, pp)
  ELSE IF password # NoPassword
  THEN IF payload /\ meta.present /\ ~meta.hasPassword
       THEN Thrown("Wallet created without password", k, pp)
       ELSE IF requireSaltFails(meta, salt)
       THEN Thrown("Missing salt for password-protected storage", k, pp)
       ELSE LET created == salt = NoSalt
                s == IF created THEN FreshSalt ELSE salt
                iterations == resolveIterations(meta, ctor, env)
            IN Outcome("none", PwKey(password, s, iterations), TRUE, data, s, storedKey,
                       IF readOnly THEN meta
                       ELSE updateMetadata(meta, "true", "keep", iterations),
                       IF created THEN {FreshSalt} ELSE {})
  ELSE IF meta.present /\ meta.hasPassword /\ payload
  THEN Thrown("Password required to unlock storage", k, pp)
  ELSE LET s == IF ~payload /\ meta.present /\ meta.hasPassword /\ ~readOnly
                THEN NoSalt ELSE salt
           g == getOrCreateStoredKey(payload)
       IN IF g.error # "none"
          THEN Outcome(g.error, k, pp, data, s, storedKey, meta, {})
          ELSE Outcome("none", g.key, FALSE, data, s, g.stored,
                       IF readOnly THEN meta
                       ELSE updateMetadata(meta, "false", "keep", Undefined),
                       g.fresh)

\* the steps at which a password-lifecycle call is made to throw
SetPasswordFails == {"none", "encrypt", "tx"}
ChangePasswordFails == {"none", "encrypt", "tx"}
RemovePasswordFails ==
  {"none", "generate", "encrypt", "tx", "tx,rollback-meta", "tx,rollback-import"}

setPassword(password, fail, env) ==
  IF ~db \/ encryptionKey.kind = "none"
  THEN Thrown("Storage not initialized", encryptionKey, isPasswordProtected)
  ELSE IF isPasswordProtected
  THEN Thrown("Storage already has a password", encryptionKey, isPasswordProtected)
  ELSE IF ~ExportSucceeds(data, encryptionKey)
  THEN Thrown("Decryption failed", encryptionKey, isPasswordProtected)
  ELSE LET previousKey == encryptionKey
           previousHasPassword == isPasswordProtected
           newSalt == FreshSalt
           iterations ==
             normalizeIterationsForNewKey(resolveIterations(meta, pbkdf2Iterations, env), meta, env)
           newKey == PwKey(password, newSalt, iterations)
       IN IF fail # "none"
          THEN \* encrypt and the transaction throw inside try: the catch
               \* restores key and mode
               Outcome(fail, previousKey, previousHasPassword, data, salt, storedKey, meta, {})
          ELSE Outcome("none", newKey, TRUE, ReEncrypt(data, newKey), newSalt, NoStoredKey,
                       Metadata(TRUE, meta.hasBackup, iterations), {FreshSalt})

changePassword(oldPassword, newPassword, opt, fail, env) ==
  IF ~db
  THEN Thrown("Storage not initialized", encryptionKey, isPasswordProtected)
  ELSE IF ~isPasswordProtected
  THEN Thrown("Storage does not have a password", encryptionKey, isPasswordProtected)
  ELSE IF salt = NoSalt
  THEN Thrown("Salt not found", encryptionKey, isPasswordProtected)
  ELSE LET iterations == resolveIterations(meta, pbkdf2Iterations, env)
           oldKey == PwKey(oldPassword, salt, iterations)
           savedKey == encryptionKey
           previousHasPassword == isPasswordProtected
       IN IF ~ExportSucceeds(data, oldKey)
          THEN Thrown("Invalid password", savedKey, previousHasPassword)
          ELSE LET newSalt == FreshSalt
                   candidateIterations ==
                     IF opt # Undefined /\ opt # 0 THEN Max(opt, iterations) ELSE iterations
                   newIterations == normalizeIterationsForNewKey(candidateIterations, meta, env)
                   newKey == PwKey(newPassword, newSalt, newIterations)
               IN IF fail # "none"
                  THEN Outcome(fail, savedKey, previousHasPassword, data, salt, storedKey, meta, {})
                  ELSE Outcome("none", newKey, TRUE, ReEncrypt(data, newKey), newSalt,
                               NoStoredKey, Metadata(TRUE, meta.hasBackup, newIterations), {FreshSalt})

removePassword(currentPassword, fail, env) ==
  IF ~db
  THEN Thrown("Storage not initialized", encryptionKey, isPasswordProtected)
  ELSE IF ~isPasswordProtected
  THEN Thrown("Storage does not have a password", encryptionKey, isPasswordProtected)
  ELSE IF salt = NoSalt
  THEN Thrown("Salt not found", encryptionKey, isPasswordProtected)
  ELSE LET iterations == resolveIterations(meta, pbkdf2Iterations, env)
           currentKey == PwKey(currentPassword, salt, iterations)
           savedKey == encryptionKey
           savedSalt == salt
           previousHasPassword == isPasswordProtected
           runtimeKey == GenKey(FreshKeyId)
       IN IF ~ExportSucceeds(data, currentKey)
          THEN Thrown("Invalid password", savedKey, previousHasPassword)
          ELSE IF fail = "generate"
          THEN \* thrown after this.encryptionKey = currentKey, outside any try
               Outcome(fail, currentKey, previousHasPassword, data, salt, storedKey, meta, {})
          ELSE IF fail = "encrypt"
          THEN \* the pre-encrypt loop runs before the try block: nothing restores
               \* the key and the mode switched at lines 858-859
               Outcome(fail, runtimeKey, FALSE, data, salt, storedKey, meta, {FreshKeyId})
          ELSE IF fail = "tx,rollback-meta"
          THEN \* the transaction aborted; the catch block's first writes throw
               Outcome(fail, savedKey, previousHasPassword, data, savedSalt, storedKey, meta, {})
          ELSE IF fail = "tx,rollback-import" \/ (fail = "tx" /\ savedKey.kind = "none")
          THEN \* the catch block rewrote the salt and deleted the stored key,
               \* then importAllEncrypted threw
               Outcome(fail, savedKey, previousHasPassword, data, savedSalt, NoStoredKey, meta, {})
          ELSE IF fail = "tx"
          THEN \* the catch block ran to its end: importAllEncrypted re-encrypted
               \* the exported records under the restored this.encryptionKey
               Outcome(fail, savedKey, previousHasPassword, ReEncrypt(data, savedKey), savedSalt,
                       NoStoredKey, meta, {})
          ELSE Outcome("none", runtimeKey, FALSE, ReEncrypt(data, runtimeKey), NoSalt,
                       StoredEnvelope(FreshKeyId), Metadata(FALSE, FALSE, Undefined),
                       {FreshKeyId})


\* ---------------------------------------------------------------- actions
\* `last` remembers the call that ran last when it was an init ("ok" when it
\* returned, the error it threw otherwise) or a password-lifecycle call that got past the verification of its
\* credential: "ok" when it returned, "failed" when it threw at the step `fail`,
\* with the passwords it was given; every other call leaves Other
InjectedFailures == {"encrypt", "tx", "generate", "tx,rollback-meta", "tx,rollback-import"}
Other ==
  [op |-> "other", outcome |-> "-", pw |-> NoPassword, newpw |-> NoPassword,
   opt |-> Undefined, prod |-> FALSE, from |-> Undefined, unwiped |-> {}]
Call(op, err, pw, newpw) ==
  IF op = "init" /\ err = "none"
  THEN [Other EXCEPT !.op = op, !.outcome = "ok"]
  ELSE IF op = "init"
  THEN [Other EXCEPT !.op = op, !.outcome = err]
  ELSE IF op \in {"setPassword", "changePassword", "removePassword"} /\ err = "none"
  THEN [Other EXCEPT !.op = op, !.outcome = "ok", !.pw = pw, !.newpw = newpw]
  ELSE IF op # "init" /\ err \in InjectedFailures
  THEN [Other EXCEPT !.op = op, !.outcome = "failed", !.pw = pw, !.newpw = newpw]
  ELSE IF op = "clear"
  THEN [Other EXCEPT !.op = op, !.outcome = "ok", !.from = meta.pbkdf2Iterations]
  ELSE Other

\* a setPassword or changePassword that returned also remembers the iterations
\* option it was given, whether its runtime was production-like, and the count
\* the metadata recorded when it was called
Detail(c, opt, env) ==
  IF c.outcome = "ok"
  THEN [c EXCEPT !.opt = opt, !.prod = isProductionLike(env), !.from = meta.pbkdf2Iterations]
  ELSE c

\* exportAllDecrypted under key `k` decrypts the records in the order of their
\* keys ('k1' before 'mnemonic') into a Map of its own; when a record fails,
\* the call throws and the buffers decrypted before it stay as they are
ExportLeaves(d, k) ==
  IF CanDecrypt(k, d["k1"]) /\ d[MNEMONIC].present /\ ~CanDecrypt(k, d[MNEMONIC])
  THEN {"k1"} ELSE {}

\* wipeDecryptedData(allData): every buffer of the Map filled with zeros
wipeDecryptedData(allData) == {}

\* the decrypted buffers that hold plaintext when lifecycle call `op` ends
\* with `err`, after an export under `exportKey`: those of a failed export;
\* all of allData when removePassword throws between its export and its try
\* block; none when the finally block ran, and none before the export
LeftDecrypted(op, err, exportKey) ==
  LET allData == {key \in DataKeys : data[key].present} IN
  IF err \in {"Invalid password", "Decryption failed"} THEN ExportLeaves(data, exportKey)
  ELSE IF op = "removePassword" /\ err \in {"generate", "encrypt"} THEN allData
  ELSE IF err \in {"none"} \cup InjectedFailures THEN wipeDecryptedData(allData)
  ELSE {}
Left(c, buffers) == [c EXCEPT !.unwiped = buffers]
\* history of metadata.pbkdf2Iterations as the call leaves it (Undefined is
\* below every count)
Track ==
  /\ recorded' = Max(recorded, meta'.pbkdf2Iterations)
  /\ stamped' = Max(stamped, meta'.updatedAt)

\* the assignments and writes of a call whose outcome is r
Apply(r) ==
  /\ 0 \notin r.fresh
  /\ encryptionKey' = r.encryptionKey
  /\ isPasswordProtected' = r.isPasswordProtected
  /\ data' = r.data
  /\ salt' = r.salt
  /\ storedKey' = r.storedKey
  /\ meta' = r.meta

\* new SecureStorage({pbkdf2Iterations}): the instance in use from now on
Construct(ctor) ==
  /\ db' = FALSE
  /\ encryptionKey' = NoKey
  /\ isPasswordProtected' = FALSE
  /\ pbkdf2Iterations' = ctor
  /\ last' = Call("new", "none", NoPassword, NoPassword)
  /\ UNCHANGED <<data, salt, storedKey, meta, canPersistCryptoKey>>
  /\ Track
  /\ UNCHANGED <<walletVars, stepVars>>

Init(password, readOnly, env) ==
  LET r == init(password, readOnly, pbkdf2Iterations, env, encryptionKey, isPasswordProtected)
  IN /\ Apply(r)
     /\ db' = TRUE
     /\ last' = Call("init", r.error, NoPassword, NoPassword)
     /\ UNCHANGED <<pbkdf2Iterations, canPersistCryptoKey>>
     /\ Track
     /\ UNCHANGED <<walletVars, stepVars>>

Set(key, value) ==
  /\ db' = TRUE
  /\ IF encryptionKey.kind = "none"
     THEN /\ last' = Call("set", "Storage not initialized", NoPassword, NoPassword)
          /\ UNCHANGED <<data, meta>>
     ELSE /\ data' = [data EXCEPT ![key] = Record(encryptionKey, value)]
          /\ meta' = updateMetadata(meta, "keep", "keep", Undefined)
          /\ last' = Call("set", "none", NoPassword, NoPassword)
  /\ UNCHANGED <<salt, storedKey, encryptionKey, isPasswordProtected, pbkdf2Iterations, canPersistCryptoKey>>
  /\ Track
  /\ UNCHANGED <<walletVars, stepVars>>

Get(key) ==
  /\ db' = TRUE
  /\ last' = Call("get", GetError(data, encryptionKey, key), NoPassword, NoPassword)
  /\ UNCHANGED <<data, salt, storedKey, meta, encryptionKey, isPasswordProtected,
                 pbkdf2Iterations, canPersistCryptoKey>>
  /\ Track
  /\ UNCHANGED <<walletVars, stepVars>>

\* exists() opens the database and reads the sentinel record
Exists ==
  /\ db' = TRUE
  /\ last' = Call("exists", "none", NoPassword, NoPassword)
  /\ UNCHANGED <<data, salt, storedKey, meta, encryptionKey, isPasswordProtected,
                 pbkdf2Iterations, canPersistCryptoKey>>
  /\ Track
  /\ UNCHANGED <<walletVars, stepVars>>

Delete(key) ==
  /\ db' = TRUE
  /\ data' = [data EXCEPT ![key] = NoRecord]
  /\ meta' = updateMetadata(meta, "keep", "keep", Undefined)
  /\ last' = Call("delete", "none", NoPassword, NoPassword)
  /\ UNCHANGED <<salt, storedKey, encryptionKey, isPasswordProtected, pbkdf2Iterations, canPersistCryptoKey>>
  /\ Track
  /\ UNCHANGED <<walletVars, stepVars>>

MarkBackupCompleted ==
  /\ db' = TRUE
  /\ meta' = updateMetadata(meta, "keep", "true", Undefined)
  /\ last' = Call("markBackupCompleted", "none", NoPassword, NoPassword)
  /\ UNCHANGED <<data, salt, storedKey, encryptionKey, isPasswordProtected, pbkdf2Iterations, canPersistCryptoKey>>
  /\ Track
  /\ UNCHANGED <<walletVars, stepVars>>

SetPassword(password, fail, env) ==
  LET r == setPassword(password, fail, env)
  IN /\ fail = "encrypt" => HasRecords(data)
     /\ Apply(r)
     /\ last' = Left(Detail(Call("setPassword", r.error, password, NoPassword), Undefined, env),
                     LeftDecrypted("setPassword", r.error, encryptionKey))
     /\ UNCHANGED <<db, pbkdf2Iterations, canPersistCryptoKey>>
     /\ Track
     /\ UNCHANGED <<walletVars, stepVars>>

ChangePassword(oldPassword, newPassword, opt, fail, env) ==
  LET r == changePassword(oldPassword, newPassword, opt, fail, env)
  IN /\ fail = "encrypt" => HasRecords(data)
     /\ Apply(r)
     /\ last' = Left(Detail(Call("changePassword", r.error, oldPassword, newPassword), opt, env),
                     LeftDecrypted("changePassword", r.error,
                                   PwKey(oldPassword, salt,
                                         resolveIterations(meta, pbkdf2Iterations, env))))
     /\ UNCHANGED <<db, pbkdf2Iterations, canPersistCryptoKey>>
     /\ Track
     /\ UNCHANGED <<walletVars, stepVars>>

RemovePassword(currentPassword, fail, env) ==
  LET r == removePassword(currentPassword, fail, env)
  IN /\ fail = "encrypt" => HasRecords(data)
     /\ Apply(r)
     /\ last' = Left(Call("removePassword", r.error, currentPassword, NoPassword),
                     LeftDecrypted("removePassword", r.error,
                                   PwKey(currentPassword, salt,
                                         resolveIterations(meta, pbkdf2Iterations, env))))
     /\ UNCHANGED <<db, pbkdf2Iterations, canPersistCryptoKey>>
     /\ Track
     /\ UNCHANGED <<walletVars, stepVars>>

\* a clear that empties the data store and leaves the meta store
ClearDataOnly ==
  /\ data' = [key \in DataKeys |-> NoRecord]
  /\ db' = FALSE
  /\ encryptionKey' = NoKey
  /\ isPasswordProtected' = FALSE
  /\ last' = Call("clear", "none", NoPassword, NoPassword)
  /\ UNCHANGED <<salt, storedKey, meta, pbkdf2Iterations, canPersistCryptoKey>>
  /\ Track
  /\ UNCHANGED <<walletVars, stepVars>>

\* clear(): both object stores emptied, the connection closed, the key dropped
Clear ==
  /\ data' = [key \in DataKeys |-> NoRecord]
  /\ salt' = NoSalt
  /\ storedKey' = NoStoredKey
  /\ meta' = NoMeta
  /\ db' = FALSE
  /\ encryptionKey' = NoKey
  /\ isPasswordProtected' = FALSE
  /\ last' = Call("clear", "none", NoPassword, NoPassword)
  /\ recorded' = Undefined
  /\ UNCHANGED <<pbkdf2Iterations, canPersistCryptoKey, stamped>>
  /\ UNCHANGED <<walletVars, stepVars>>

Close ==
  /\ db' = FALSE
  /\ encryptionKey' = NoKey
  /\ isPasswordProtected' = FALSE
  /\ last' = Call("close", "none", NoPassword, NoPassword)
  /\ UNCHANGED <<data, salt, storedKey, meta, pbkdf2Iterations,
                 canPersistCryptoKey>>
  /\ Track
  /\ UNCHANGED <<walletVars, stepVars>>

\* ------------------------------------------- a lifecycle call, step by step
\* setPassword and changePassword await between their steps, and every other
\* call of the same instance may run at such an await.  `inflight` is the call
\* that is suspended: its locals, and the step it runs next
NoCall ==
  [op |-> "none", step |-> "none", password |-> NoPassword, savedKey |-> NoKey,
   previousHasPassword |-> FALSE, existingMetadata |-> NoMeta,
   allData |-> [key \in DataKeys |-> NoRecord], newSalt |-> NoSalt, sound |-> FALSE]

\* exportAllDecrypted: the Map of the decrypted records
Exported(d) ==
  [key \in DataKeys |-> IF d[key].present THEN Record(NoKey, d[key].pt) ELSE NoRecord]

\* the iteration count and the key the suspended call derives for its new password
NewIterations(c) ==
  normalizeIterationsForNewKey(
    resolveIterations(c.existingMetadata, pbkdf2Iterations, DevEnv), c.existingMetadata, DevEnv)
NewKey(c) == PwKey(c.password, c.newSalt, NewIterations(c))

\* setPassword up to its awaits after exportAllDecrypted: the guards, the
\* export under the instance's key, previousKey and the metadata it read
SetPasswordBegin(password) ==
  /\ inflight.op = "none"
  /\ db /\ encryptionKey.kind # "none" /\ ~isPasswordProtected
  /\ ExportSucceeds(data, encryptionKey)
  /\ inflight' = [NoCall EXCEPT !.op = "setPassword", !.step = "switch",
                                !.password = password, !.savedKey = encryptionKey,
                                !.previousHasPassword = isPasswordProtected,
                                !.existingMetadata = meta, !.allData = Exported(data),
                                !.sound = TRUE]
  /\ last' = Other
  /\ UNCHANGED <<data, salt, storedKey, meta, db, encryptionKey, isPasswordProtected,
                 pbkdf2Iterations, canPersistCryptoKey>>
  /\ Track
  /\ UNCHANGED <<walletVars, now>>

\* changePassword up to `await this.exportAllDecrypted()`: the guards, the old
\* key derived from the given password and put in place of the instance's key
ChangePasswordBegin(oldPassword, newPassword) ==
  /\ inflight.op = "none"
  /\ db /\ isPasswordProtected /\ salt # NoSalt
  /\ encryptionKey' = PwKey(oldPassword, salt, resolveIterations(meta, pbkdf2Iterations, DevEnv))
  /\ inflight' = [NoCall EXCEPT !.op = "changePassword", !.step = "export",
                                !.password = newPassword, !.savedKey = encryptionKey,
                                !.previousHasPassword = isPasswordProtected,
                                !.existingMetadata = meta,
                                !.sound = ExportSucceeds(data, encryptionKey)]
  /\ last' = Other
  /\ UNCHANGED <<data, salt, storedKey, meta, db, isPasswordProtected,
                 pbkdf2Iterations, canPersistCryptoKey>>
  /\ Track
  /\ UNCHANGED <<walletVars, now>>

\* the export of changePassword: the records as they are now, under the key
\* the instance holds now; a failure restores savedKey and throws
ChangePasswordExport ==
  /\ inflight.op = "changePassword" /\ inflight.step = "export"
  /\ IF ExportSucceeds(data, encryptionKey)
     THEN /\ inflight' = [inflight EXCEPT !.step = "switch", !.allData = Exported(data)]
          /\ UNCHANGED encryptionKey
     ELSE /\ inflight' = NoCall
          /\ encryptionKey' = inflight.savedKey
  /\ last' = Other
  /\ UNCHANGED <<data, salt, storedKey, meta, db, isPasswordProtected,
                 pbkdf2Iterations, canPersistCryptoKey>>
  /\ Track
  /\ UNCHANGED <<walletVars, now>>

\* the new salt, the new key, and `this.encryptionKey = newKey` before the
\* loop that encrypts the exported entries
DeriveNewKey ==
  /\ inflight.step = "switch"
  /\ FreshSalt # 0
  /\ inflight' = [inflight EXCEPT !.step = "commit", !.newSalt = FreshSalt]
  /\ encryptionKey' = NewKey(inflight')
  /\ last' = Other
  /\ UNCHANGED <<data, salt, storedKey, meta, db, isPasswordProtected,
                 pbkdf2Iterations, canPersistCryptoKey>>
  /\ Track
  /\ UNCHANGED <<walletVars, now>>

\* the transaction: the data store cleared and the encrypted entries put, the
\* salt, the stored key deleted, the metadata row built from the row read at
\* the start; then the key and the mode.  A transaction that throws leaves the
\* stores as they were, and the catch block restores the key and the mode
CommitFails == {"none", "tx"}
Commit(fail) ==
  /\ inflight.step = "commit"
  /\ IF fail = "none"
     THEN /\ data' = ReEncrypt(inflight.allData, NewKey(inflight))
          /\ salt' = inflight.newSalt
          /\ storedKey' = NoStoredKey
          /\ meta' = MetadataFrom(inflight.existingMetadata, TRUE,
                                  inflight.existingMetadata.hasBackup, NewIterations(inflight))
          /\ encryptionKey' = NewKey(inflight)
          /\ isPasswordProtected' = TRUE
     ELSE /\ encryptionKey' = inflight.savedKey
          /\ isPasswordProtected' = inflight.previousHasPassword
          /\ UNCHANGED <<data, salt, storedKey, meta>>
  /\ inflight' = NoCall
  /\ last' = Call(inflight.op, fail, NoPassword, inflight.password)
  /\ UNCHANGED <<db, pbkdf2Iterations, canPersistCryptoKey>>
  /\ Track
  /\ UNCHANGED <<walletVars, now>>

\* ------------------------------------------------ key manager and provider
\* the wallet above the store: the key manager that holds the seed, and the
\* provider that serves requests of web pages
ProviderIds == {"p1", "p2"}
Origins == {"o1", "o2"}
NoId == "none"


NoReply ==
  [method |-> "none", code |-> "none", origin |-> "none", out |-> "none",
   arg |-> "none", protocol |-> "none", requested |-> "none", scanned |-> 0,
   signed |-> {}, path |-> [type |-> "null", change |-> 0, index |-> 0],
   afterLock |-> FALSE, approvedSince |-> {}, requestedSince |-> {},
   prompted |-> FALSE, hadGrant |-> FALSE, approved |-> FALSE,
   walletCalled |-> FALSE, unlocked |-> FALSE]

\* afterLock: lock() was called and neither unlock nor fromMnemonic has
\* succeeded since; approvedSince: the origins whose connect prompt, for the
\* provider id now registered, was approved since accessGrants was last
\* cleared; requestedSince: the origins whose getAddresses request came to the
\* grant test since then; every call hands them on
Carry == [NoReply EXCEPT !.afterLock = reply.afterLock,
                         !.approvedSince = reply.approvedSince,
                         !.requestedSince = reply.requestedSince]

\* a request suspended at `await this.showConfirmation(...)`: the locals it
\* resumes with (ref 0: a Set of its own, `new Set()`, not in the map)
Slots == 1 .. MaxPending
Idle == [method |-> "none", origin |-> "none", providerId |-> NoId, ref |-> 0,
         arg |-> "none", protocol |-> "none", requested |-> "none"]
Refs == 1 .. (Cardinality(ProviderIds) + MaxPending)
Referenced(g, p) == ({g[id] : id \in ProviderIds} \cup {p[i].ref : i \in Slots}) \ {0}
FreshRef(g, p) ==
  CHOOSE r \in Refs : r \notin Referenced(g, p)
                      /\ \A q \in Refs : q < r => q \in Referenced(g, p)
\* a Set nothing refers to is garbage
Collect(h, g, p) == [r \in Refs |-> IF r \in Referenced(g, p) THEN h[r] ELSE {}]

\* a key manager whose exportMnemonic is still served after lock
requireSeedExportUnguarded(op, ready) ==
  IF ~ready /\ op # "exportMnemonic" THEN "LockedError" ELSE "none"

\* every operation that reads the seed or the master key first tests that the
\* key manager holds them: exportMnemonic, deriveAddress, getAddresses,
\* signMessage, signPsbt, findAddressPath
requireSeed(op, ready) == IF ~ready THEN "LockedError" ELSE "none"

\* exportMnemonic, deriveAddress and getAddresses: the phrase, or addresses
\* derived from the master key
KeyManagerOps == {"exportMnemonic", "deriveAddress", "getAddresses"}
KeyManagerCall(op) ==
  /\ reply' = [Carry EXCEPT !.method = op,
                             !.code = IF requireSeed(op, initialized) # "none"
                                      THEN requireSeed(op, initialized) ELSE "ok",
                             !.out = IF requireSeed(op, initialized) = "none"
                                     THEN "seed-derived" ELSE "none",
                             !.unlocked = initialized]
  /\ UNCHANGED <<initialized, lastProviderId, currentOptions, accessGrants, heap,
                 origin, pending>>
  /\ UNCHANGED <<vars, stepVars, addressLookup>>

\* the address given to signMessage: the wallet's Taproot address, its native
\* SegWit address, a Taproot address of another wallet, any other string
Addresses == {"taproot", "segwit", "foreignTaproot", "unknown"}
Protocols == {"omitted", "ecdsa", "bip322-simple"}
NoSignature == [error |-> "none", signature |-> "none"]

\* a protocol choice that signs a Taproot address with ECDSA when asked to
signMessageNoTaprootGuard(address, protocol, ready) ==
  IF requireSeed("signMessage", ready) # "none"
  THEN [NoSignature EXCEPT !.error = requireSeed("signMessage", ready)]
  ELSE IF address \notin {"taproot", "segwit"}
  THEN [NoSignature EXCEPT !.error = "Address not found"]
  ELSE [NoSignature EXCEPT !.signature = IF protocol = "omitted" THEN "ecdsa" ELSE protocol]

\* signMessage(message, address, protocol?) of the key manager: the address is
\* resolved to its path; on a Taproot address an omitted protocol becomes
\* bip322-simple and ecdsa is refused; otherwise the protocol asked for, ecdsa
\* when omitted
signMessage(address, protocol, ready) ==
  IF requireSeed("signMessage", ready) # "none"
  THEN [NoSignature EXCEPT !.error = requireSeed("signMessage", ready)]
  ELSE IF address \notin {"taproot", "segwit"}
  THEN [NoSignature EXCEPT !.error = "Address not found"]
  ELSE IF address = "taproot" /\ protocol = "ecdsa"
  THEN [NoSignature EXCEPT !.error = "Taproot addresses require bip322-simple signing"]
  ELSE [NoSignature EXCEPT !.signature =
          IF protocol # "omitted" THEN protocol
          ELSE IF address = "taproot" THEN "bip322-simple" ELSE "ecdsa"]

SignMessage(address, protocol) ==
  LET r == signMessage(address, protocol, initialized)
  IN /\ reply' = [Carry EXCEPT !.method = "signMessage",
                                !.code = IF r.error = "none" THEN "ok" ELSE r.error,
                                !.out = r.signature, !.arg = address,
                                !.protocol = protocol, !.requested = protocol,
                                !.unlocked = initialized]
     /\ UNCHANGED <<initialized, lastProviderId, currentOptions, accessGrants, heap,
                    origin, pending>>
     /\ UNCHANGED <<vars, stepVars, addressLookup>>

\* one input of a PSBT as signPsbt sees it: its kind, the number of sighash
\* types requested for it, its tapInternalKey (absent, the derived key,
\* another key) and the key in its witness script
PsbtInputs ==
  [kind : {"taproot"}, sighashTypes : 0 .. MaxSighashTypes,
   tapInternalKey : {"absent", "derived", "other"}, witnessKey : {"derived", "other"}]
  \cup {[kind |-> "segwit", sighashTypes |-> 0, tapInternalKey |-> "absent",
         witnessKey |-> "derived"]}
\* a PSBT of one input, or of two of which one passes every guard
PassingInputs ==
  {[kind |-> "segwit", sighashTypes |-> 0, tapInternalKey |-> "absent", witnessKey |-> "derived"],
   [kind |-> "taproot", sighashTypes |-> 1, tapInternalKey |-> "derived", witnessKey |-> "derived"]}
Psbts ==
  {<<a>> : a \in PsbtInputs}
    \cup {<<a, b>> : a \in PsbtInputs, b \in PassingInputs}
    \cup {<<a, b>> : a \in PassingInputs, b \in PsbtInputs}


\* Taproot guards that let a foreign tapInternalKey through
taprootGuardsNoInternalKeyCheck(input) ==
  /\ input.sighashTypes <= 1
  /\ input.witnessKey = "derived"

\* the three guards on a Taproot input
taprootGuards(input) ==
  /\ input.sighashTypes <= 1
  /\ input.tapInternalKey \in {"absent", "derived"}
  /\ input.witnessKey = "derived"

\* signPsbt(psbtBase64, inputs): the inputs are signed in order; a Taproot
\* input that fails a guard ends the call with an error and no PSBT is returned
signPsbt(psbt, ready) ==
  IF requireSeed("signPsbt", ready) # "none"
  THEN [error |-> requireSeed("signPsbt", ready), signed |-> {}]
  ELSE IF \E i \in 1 .. Len(psbt) : psbt[i].kind = "taproot" /\ ~taprootGuards(psbt[i])
  THEN [error |-> "IncompatibleInputError", signed |-> {}]
  ELSE [error |-> "none", signed |-> 1 .. Len(psbt)]

SignPsbt(psbt) ==
  LET r == signPsbt(psbt, initialized)
  IN /\ reply' = [Carry EXCEPT !.method = "signPsbt",
                                !.code = IF r.error = "none" THEN "ok" ELSE r.error,
                                !.out = IF r.signed # {} THEN "signed psbt" ELSE "none",
                                !.signed = r.signed, !.arg = psbt,
                                !.unlocked = initialized]
     /\ UNCHANGED <<initialized, lastProviderId, currentOptions, accessGrants, heap,
                    origin, pending>>
     /\ UNCHANGED <<vars, stepVars, addressLookup>>

\* the lookup windows: how many receive and how many change indexes
\* findAddressPath derives for each path type; a configured size above the cap
\* counts as the cap
LookupCap == 2
Windows == 0 .. MaxWindow
DefaultLookup == [receiveWindow |-> 1, changeWindow |-> 1]
PathTypes == {"legacy", "nestedSegwit", "nativeSegwit", "taproot"}

\* a window taken as configured
clampWindowUnclamped(w) == w

clampWindow(w) == IF w > LookupCap THEN LookupCap ELSE w

\* setAddressLookupConfig({receiveWindow, changeWindow})
SetAddressLookupConfig(receiveWindow, changeWindow) ==
  /\ addressLookup' = [receiveWindow |-> receiveWindow, changeWindow |-> changeWindow]
  /\ reply' = [Carry EXCEPT !.method = "setAddressLookupConfig", !.code = "ok"]
  /\ UNCHANGED <<initialized, lastProviderId, currentOptions, accessGrants, heap,
                 origin, pending>>
  /\ UNCHANGED <<vars, stepVars>>

\* the derivations findAddressPath makes: for each path type, the receive
\* chain (change 0) and the change chain (change 1), each from index 0 to the
\* end of its window; an address of this wallet is named by its derivation,
\* ForeignAddress is no address of this wallet, NoPath is the result null
WalletAddresses == [type : PathTypes, change : {0, 1}, index : Windows]
ForeignAddress == [type |-> "foreign", change |-> 0, index |-> 0]
NoPath == [type |-> "null", change |-> 0, index |-> 0]
Scanned(cfg) ==
  {a \in WalletAddresses :
     a.index < clampWindow(IF a.change = 0 THEN cfg.receiveWindow ELSE cfg.changeWindow)}
findAddressPath(address, cfg, ready) ==
  IF requireSeed("findAddressPath", ready) # "none"
  THEN [error |-> requireSeed("findAddressPath", ready), path |-> NoPath, scanned |-> 0]
  ELSE [error |-> "none",
        path |-> IF address \in Scanned(cfg) THEN address ELSE NoPath,
        scanned |-> Cardinality(Scanned(cfg))]

FindAddressPath(address) ==
  LET r == findAddressPath(address, addressLookup, initialized)
  IN /\ reply' = [Carry EXCEPT !.method = "findAddressPath",
                                !.code = IF r.error = "none" THEN "ok" ELSE r.error,
                                !.out = IF r.path # NoPath THEN "path" ELSE "none",
                                !.path = r.path, !.arg = address,
                                !.scanned = r.scanned, !.unlocked = initialized]
     /\ UNCHANGED <<initialized, lastProviderId, currentOptions, accessGrants, heap,
                    origin, pending, addressLookup>>
     /\ UNCHANGED <<vars, stepVars>>

\* a backup envelope: its fields, each as export wrote it ("orig") or changed
\* afterwards, and the password its MAC was made with
EnvelopeFields ==
  {"version", "cipher", "kdf", "iv", "ciphertext", "createdAt", "network", "mac", "macAlgo"}
MacBytes == 1 .. 3

\* HMAC-SHA256 under the key derived from the password and envelope.kdf, over
\* the envelope without its mac: equal for equal inputs, different otherwise.
\* A mac is MacBytes long; byte i tells the inputs apart when they differ in
\* a way that falls on it
computeHmacSha256(payload, password) ==
  [i \in MacBytes |-> [password |-> password, payload |-> payload]]

\* a comparison that stops at the first byte
timingSafeEqualFirstByte(a, b) == a[1] = b[1]

\* timingSafeEqual(a, b): equal lengths and no differing byte
timingSafeEqual(a, b) ==
  /\ DOMAIN a = DOMAIN b
  /\ \A i \in DOMAIN a : a[i] = b[i]

\* exportBackup(password): the envelope and its mac
exportBackup(password) ==
  [fields |-> [f \in EnvelopeFields \ {"mac"} |-> "orig"],
   mac |-> computeHmacSha256([f \in EnvelopeFields \ {"mac"} |-> "orig"], password)]

\* the envelope with one field changed; a changed mac differs from the
\* original in its last byte alone
Tampered(envelope, field) ==
  IF field = "none" THEN envelope
  ELSE IF field = "mac"
  THEN [envelope EXCEPT !.mac[3] = [password |-> "changed", payload |-> envelope.fields]]
  ELSE [envelope EXCEPT !.fields[field] = "changed"]

\* an import that decrypts first and checks the MAC afterwards
importBackupDecryptFirst(envelope, password) ==
  IF \E f \in {"kdf", "iv", "ciphertext"} : envelope.fields[f] # "orig"
  THEN [error |-> "DecryptionError", decrypted |-> TRUE, imported |-> FALSE]
  ELSE IF envelope.mac[1].password # password
  THEN [error |-> "DecryptionError", decrypted |-> TRUE, imported |-> FALSE]
  ELSE [error |-> "none", decrypted |-> TRUE, imported |-> TRUE]

\* importBackup(backup, password): the MAC is recomputed over the envelope as
\* received and compared before anything is decrypted
importBackup(envelope, password) ==
  IF ~timingSafeEqual(computeHmacSha256(envelope.fields, password), envelope.mac)
  THEN [error |-> "IntegrityError", decrypted |-> FALSE, imported |-> FALSE]
  ELSE [error |-> "none", decrypted |-> TRUE, imported |-> TRUE]

ImportBackup(exportPassword, field, password) ==
  LET r == importBackup(Tampered(exportBackup(exportPassword), field), password)
  IN /\ reply' = [Carry EXCEPT !.method = "importBackup",
                                !.code = IF r.error = "none" THEN "ok" ELSE r.error,
                                !.out = IF r.decrypted THEN "decrypted" ELSE "none",
                                !.arg = field,
                                !.protocol = IF password = exportPassword
                                             THEN "password" ELSE "other password",
                                !.afterLock = reply.afterLock /\ ~r.imported,
                                !.unlocked = initialized]
     /\ initialized' = IF r.imported THEN TRUE ELSE initialized
     /\ UNCHANGED <<lastProviderId, currentOptions, accessGrants, heap, origin, pending,
                    addressLookup>>
     /\ UNCHANGED <<vars, stepVars>>

\* fromMnemonic with a valid phrase, and unlock of a stored wallet

FromMnemonic ==
  /\ initialized' = TRUE
  /\ reply' = [Carry EXCEPT !.method = "fromMnemonic", !.code = "ok", !.afterLock = FALSE]

  /\ UNCHANGED <<lastProviderId, currentOptions, accessGrants, heap, origin, pending>>
  /\ UNCHANGED <<vars, stepVars, addressLookup>>
Unlock ==
  /\ ~initialized
  /\ initialized' = TRUE
  /\ reply' = [Carry EXCEPT !.method = "unlock", !.code = "ok", !.afterLock = FALSE]
  /\ UNCHANGED <<lastProviderId, currentOptions, accessGrants, heap, origin, pending>>
  /\ UNCHANGED <<vars, stepVars, addressLookup>>

\* lock(): the key manager drops the seed, the provider drops its grants
\* resetAccess(): accessGrants.clear()
resetAccess == [id \in ProviderIds |-> 0]
Lock ==
  /\ initialized' = FALSE
  /\ accessGrants' = resetAccess
  /\ heap' = Collect(heap, accessGrants', pending)
  /\ reply' = [NoReply EXCEPT !.method = "lock", !.code = "ok", !.afterLock = TRUE]
  /\ UNCHANGED <<lastProviderId, currentOptions, origin, pending>>
  /\ UNCHANGED <<vars, stepVars, addressLookup>>

\* register(options) in a browser: unregister(options.id), unregister of an
\* earlier id, then the new id
Register(id) ==
  /\ lastProviderId' = id
  /\ currentOptions' = id
  /\ accessGrants' = resetAccess
  /\ heap' = Collect(heap, accessGrants', pending)
  /\ reply' = [Carry EXCEPT !.method = "register", !.code = "ok", !.approvedSince = {},
                             !.requestedSince = {}]
  /\ UNCHANGED <<initialized, origin, pending>>
  /\ UNCHANGED <<vars, stepVars, addressLookup>>

\* unregister(id?): id is NoId when the argument is left out
Unregister(id) ==
  LET providerId == IF id # NoId THEN id
                    ELSE IF currentOptions # NoId THEN currentOptions
                    ELSE lastProviderId
  IN /\ reply' = [Carry EXCEPT !.method = "unregister", !.code = "ok",
                                !.approvedSince = IF providerId = NoId THEN @ ELSE {},
                                !.requestedSince = IF providerId = NoId THEN @ ELSE {}]
     /\ IF providerId = NoId
        THEN UNCHANGED <<lastProviderId, currentOptions, accessGrants, heap>>
        ELSE /\ lastProviderId' = IF lastProviderId = providerId THEN NoId ELSE lastProviderId
             /\ currentOptions' = IF lastProviderId = providerId THEN NoId ELSE currentOptions
             /\ accessGrants' = resetAccess
             /\ heap' = Collect(heap, accessGrants', pending)
     /\ UNCHANGED <<initialized, origin, pending>>
     /\ UNCHANGED <<vars, stepVars, addressLookup>>

\* the page that calls the provider changes
Navigate(o) ==
  /\ o # origin
  /\ origin' = o
  /\ reply' = Carry
  /\ UNCHANGED <<initialized, lastProviderId, currentOptions, accessGrants, heap, pending>>
  /\ UNCHANGED <<vars, stepVars, addressLookup>>

\* a request that ends without a prompt
Ends(method, code, out, hadGrant, walletCalled) ==
  /\ reply' = [Carry EXCEPT !.method = method, !.code = code, !.origin = origin,
                             !.out = out, !.hadGrant = hadGrant,
                             !.requestedSince = IF hadGrant THEN @ \cup {origin} ELSE @,
                             !.walletCalled = walletCalled, !.unlocked = initialized]
  /\ UNCHANGED <<initialized, lastProviderId, currentOptions, accessGrants, heap,
                 origin, pending>>
  /\ UNCHANGED <<vars, stepVars, addressLookup>>
\* a request that shows its prompt and waits for the answer
Suspends(method, providerId, ref, arg, protocol, requested) ==
  \E i \in Slots :
    /\ pending[i] = Idle
    /\ \A j \in Slots : j < i => pending[j] # Idle
    /\ pending' = [pending EXCEPT ![i] =
                     [method |-> method, origin |-> origin, providerId |-> providerId,
                      ref |-> ref, arg |-> arg, protocol |-> protocol,
                      requested |-> requested]]
    /\ reply' = [Carry EXCEPT !.method = method, !.code = "prompt", !.origin = origin,
                               !.requestedSince = IF method = "getAddresses"
                                                  THEN @ \cup {origin} ELSE @,
                               !.prompted = TRUE, !.unlocked = initialized]

    /\ UNCHANGED <<initialized, lastProviderId, currentOptions, accessGrants, heap, origin>>
    /\ UNCHANGED <<vars, stepVars, addressLookup>>

\* request('getInfo')
RequestGetInfo == Ends("getInfo", "ok", "info", FALSE, FALSE)

\* a provider that takes every wallet for unlocked
ensureUnlockedSkipped(ready) == TRUE

\* ensureUnlocked(): passes when wallet.isUnlocked()
ensureUnlocked(ready) == ready


\* a grant test that asks whether any origin was granted
hasGrantAnyOrigin(g, h, providerId, o) == g[providerId] # 0 /\ h[g[providerId]] # {}

\* (accessGrants.get(providerId) ?? new Set()).has(origin)
hasGrant(g, h, providerId, o) == g[providerId] # 0 /\ o \in h[g[providerId]]

\* request('getAddresses', {purposes}) up to its prompt or its end
PurposesArgs == {"valid", "invalid"}
RequestGetAddresses(purposes, confirmAvailable) ==
  LET providerId == IF currentOptions # NoId THEN currentOptions ELSE lastProviderId
  IN IF ~ensureUnlocked(initialized)
     THEN Ends("getAddresses", "UNAUTHORIZED", "none", FALSE, FALSE)
     ELSE IF providerId = NoId
     THEN Ends("getAddresses", "INTERNAL_ERROR", "none", FALSE, FALSE)
     ELSE IF hasGrant(accessGrants, heap, providerId, origin)
     THEN IF purposes = "invalid"
          THEN Ends("getAddresses", "INVALID_PARAMS", "none", TRUE, FALSE)
          ELSE Ends("getAddresses", "ok", "addresses", TRUE, TRUE)
     ELSE IF ~confirmAvailable
     THEN Ends("getAddresses", "INTERNAL_ERROR", "none", FALSE, FALSE)
     ELSE Suspends("getAddresses", providerId, accessGrants[providerId], purposes,
                   "none", "none")

\* request of sendTransfer and of a method the provider does not know
RequestOther(method) ==
  IF ~ensureUnlocked(initialized)
  THEN Ends(method, "UNAUTHORIZED", "none", FALSE, FALSE)
  ELSE Ends(method, IF method = "sendTransfer" THEN "UNSUPPORTED_METHOD"
                    ELSE "METHOD_NOT_FOUND", "none", FALSE, FALSE)

\* isTaprootAddress(address): bech32m, witness version 1, 32 bytes of data
isTaprootAddress(address) == address \in {"taproot", "foreignTaproot"}

\* a protocol choice that leaves an omitted protocol to the wallet
providerProtocolAsGiven(address, protocol) == protocol

\* params.protocol ?? (isTaprootAddress(params.address) ? 'bip322-simple' : undefined)
providerProtocol(address, protocol) ==
  IF protocol # "omitted" THEN protocol
  ELSE IF isTaprootAddress(address) THEN "bip322-simple" ELSE "omitted"

\* mapUserError(error): the messages that become INVALID_PARAMS
mapUserError(error) ==
  error \in {"Address not found", "Taproot addresses require bip322-simple signing"}

\* request('signMessage', {address, message, protocol}) up to its prompt or its
\* end; address "missing": no address or no message given; protocol "other":
\* neither ecdsa nor bip322-simple
ProviderAddresses == {"taproot", "segwit", "unknown", "missing"}
ProviderProtocols == Protocols \cup {"other"}
RequestSignMessage(address, protocol, confirmAvailable) ==
  IF ~ensureUnlocked(initialized)
  THEN Ends("signMessage", "UNAUTHORIZED", "none", FALSE, FALSE)
  ELSE IF address = "missing" \/ protocol = "other"
  THEN Ends("signMessage", "INVALID_PARAMS", "none", FALSE, FALSE)
  ELSE IF ~confirmAvailable
  THEN Ends("signMessage", "INTERNAL_ERROR", "none", FALSE, FALSE)
  ELSE Suspends("signMessage", NoId, 0, address, providerProtocol(address, protocol),
                protocol)

\* request('signPsbt', {psbt, signInputs, broadcast}) up to its prompt or its
\* end; the shape of the parameters, and the input the PSBT has
PsbtShapes == {"missing", "broadcast", "invalid-base64", "malformed-signInputs",
               "no-index", "ok"}
ProviderPsbts == {"segwit", "taproot", "taprootForeignKey"}
ProviderPsbt(name) ==
  <<[kind |-> IF name = "segwit" THEN "segwit" ELSE "taproot",
     sighashTypes |-> 0,
     tapInternalKey |-> IF name = "taprootForeignKey" THEN "other" ELSE "absent",
     witnessKey |-> "derived"]>>
RequestSignPsbt(shape, psbt, confirmAvailable) ==
  IF ~ensureUnlocked(initialized)
  THEN Ends("signPsbt", "UNAUTHORIZED", "none", FALSE, FALSE)
  ELSE IF shape \in {"missing", "invalid-base64", "malformed-signInputs"}
  THEN Ends("signPsbt", "INVALID_PARAMS", "none", FALSE, FALSE)
  ELSE IF shape = "broadcast"
  THEN Ends("signPsbt", "UNSUPPORTED_METHOD", "none", FALSE, FALSE)
  ELSE IF ~confirmAvailable
  THEN Ends("signPsbt", "INTERNAL_ERROR", "none", FALSE, FALSE)
  ELSE Suspends("signPsbt", NoId, 0, psbt, shape, "none")

\* a provider that goes on to the wallet whatever the answer to the prompt was
signingApprovedRegardless(approved) == TRUE

\* `if (!approved) throw USER_REJECTED` comes before the call of the wallet
signingApproved(approved) == approved

\* the answer to the sign_message or sign_psbt prompt of the request in slot i;
\* the error of a failed Taproot guard becomes INVALID_PARAMS when its message
\* holds one of the patterns of mapUserError and INTERNAL_ERROR otherwise
AnswerSign(i, approved) ==
  LET p == pending[i]
      m == signMessage(p.arg, p.protocol, initialized)
      s == signPsbt(ProviderPsbt(p.arg), initialized)
      done(code, out, called) ==
        reply' = [Carry EXCEPT !.method = p.method, !.code = code, !.out = out,
                                !.arg = p.arg, !.protocol = p.protocol,
                                !.requested = p.requested,
                                !.prompted = TRUE, !.approved = approved,
                                !.walletCalled = called, !.unlocked = initialized]
  IN /\ p.method \in {"signMessage", "signPsbt"}
     /\ pending' = [pending EXCEPT ![i] = Idle]
     /\ IF ~signingApproved(approved) THEN done("USER_REJECTED", "none", FALSE)
        ELSE IF p.method = "signMessage"
        THEN IF m.error = "none" THEN done("ok", m.signature, TRUE)
             ELSE IF mapUserError(m.error) THEN done("INVALID_PARAMS", "none", TRUE)
             ELSE done("INTERNAL_ERROR", "none", TRUE)
        ELSE IF p.protocol = "no-index" THEN done("INVALID_PARAMS", "none", FALSE)
        ELSE IF s.error = "none" THEN done("ok", "signed psbt", TRUE)
        ELSE IF s.error = "IncompatibleInputError"
        THEN \E code \in {"INVALID_PARAMS", "INTERNAL_ERROR"} : done(code, "none", TRUE)
        ELSE done("INTERNAL_ERROR", "none", TRUE)
     /\ heap' = Collect(heap, accessGrants, pending')
     /\ UNCHANGED <<initialized, lastProviderId, currentOptions, accessGrants, origin>>
     /\ UNCHANGED <<vars, stepVars, addressLookup>>

\* a provider that stores the grant before it looks at the answer
grantStoredRegardless(approved) == TRUE

\* the throw on a rejected prompt comes before allowedForProvider.add and
\* accessGrants.set
grantStored(approved) == approved

\* the answer to the connect prompt of the request in slot i
AnswerGetAddresses(i, approved) ==
  LET p == pending[i]
      rest == [pending EXCEPT ![i] = Idle]
      r == IF p.ref = 0 THEN FreshRef(accessGrants, pending) ELSE p.ref
      registered == IF currentOptions # NoId THEN currentOptions ELSE lastProviderId
      done(code, out, called) ==
        reply' = [Carry EXCEPT !.method = "getAddresses", !.code = code,
                                !.origin = p.origin, !.out = out, !.prompted = TRUE,
                                !.approved = approved, !.walletCalled = called,
                                !.approvedSince =
                                   IF approved /\ p.providerId = registered
                                   THEN @ \cup {p.origin} ELSE @,
                                !.unlocked = initialized]

  IN /\ p.method = "getAddresses"
     /\ pending' = rest
     /\ IF grantStored(approved)
        THEN /\ accessGrants' = [accessGrants EXCEPT ![p.providerId] = r]
             /\ heap' = Collect([heap EXCEPT ![r] = @ \cup {p.origin}], accessGrants', rest)
        ELSE /\ accessGrants' = accessGrants
             /\ heap' = Collect(heap, accessGrants, rest)
     /\ IF ~approved THEN done("USER_REJECTED", "none", FALSE)
        ELSE IF p.arg = "invalid" THEN done("INVALID_PARAMS", "none", FALSE)
        ELSE IF ~initialized THEN done("INTERNAL_ERROR", "none", TRUE)
        ELSE done("ok", "addresses", TRUE)

     /\ UNCHANGED <<initialized, lastProviderId, currentOptions, origin>>
     /\ UNCHANGED <<vars, stepVars, addressLookup>>

\* the state after `new ZeldWallet()`: no seed, no registration, no grant
WalletInit ==
  /\ initialized = FALSE
  /\ lastProviderId = NoId
  /\ currentOptions = NoId
  /\ accessGrants = resetAccess
  /\ heap = [r \in Refs |-> {}]
  /\ origin = "o1"
  /\ pending = [i \in Slots |-> Idle]
  /\ addressLookup = DefaultLookup
  /\ reply = NoReply

\* an empty database and a newly constructed instance, on either kind of platform
StoreInit ==
  /\ data = [key \in DataKeys |-> NoRecord]
  /\ salt = NoSalt
  /\ storedKey = NoStoredKey
  /\ meta = NoMeta
  /\ db = FALSE
  /\ encryptionKey = NoKey
  /\ isPasswordProtected = FALSE
  /\ pbkdf2Iterations \in CtorOverrides
  /\ canPersistCryptoKey \in BOOLEAN
  /\ last = Call("new", "none", NoPassword, NoPassword)
  /\ recorded = Undefined
  /\ stamped = 0
  /\ now = 0
  /\ inflight = NoCall
  /\ WalletInit

\* every call the class offers, with its arguments drawn from the given sets
NextOn(keys, values, envs, ctors, opts) ==
  \/ \E ctor \in ctors : Construct(ctor)
  \/ \E password \in Passwords \cup {NoPassword}, readOnly \in BOOLEAN, env \in envs :
       Init(password, readOnly, env)
  \/ \E key \in keys, value \in values : Set(key, value)
  \/ \E key \in keys : Get(key)
  \/ Exists
  \/ \E key \in keys : Delete(key)
  \/ MarkBackupCompleted
  \/ \E password \in Passwords, fail \in SetPasswordFails, env \in envs :
       SetPassword(password, fail, env)
  \/ \E oldPassword \in Passwords, newPassword \in Passwords, opt \in opts,
        fail \in ChangePasswordFails, env \in envs :
       ChangePassword(oldPassword, newPassword, opt, fail, env)
  \/ \E currentPassword \in Passwords, fail \in RemovePasswordFails, env \in envs :
       RemovePassword(currentPassword, fail, env)
  \/ Clear
  \/ Close

\* Spec: the password lifecycle over two data keys and two plaintexts, in a
\* development environment without iteration overrides
Next == NextOn(DataKeys, Plaintexts, {DevEnv}, {Undefined}, {Undefined})
DevStoreInit == StoreInit /\ pbkdf2Iterations = Undefined
Spec == DevStoreInit /\ [][Next]_vars

\* SpecIterations: the iteration-count policy over every environment, constructor
\* override and changePassword option, with the sentinel record alone, on a
\* platform that stores CryptoKeys
NextIterations == NextOn({MNEMONIC}, {"a"}, Envs, CtorOverrides, ChangeOptions)
IterationsInit == StoreInit /\ canPersistCryptoKey
SpecIterations == IterationsInit /\ [][NextIterations]_vars

\* SpecDevelopment: the iteration-count policy in the runtimes that are not
\* production-like: no override, an environment override, and a test runtime
\* (NODE_ENV is test) without override, on a platform that stores CryptoKeys
TestEnv == Env(Undefined, "test", FALSE)
DevelopmentEnvs == {DevEnv, Env(LowIterations, "other", FALSE), TestEnv}
DevelopmentCtorOverrides == {Undefined, HighIterations}
NextDevelopment ==
  NextOn({MNEMONIC}, {"a"}, DevelopmentEnvs, DevelopmentCtorOverrides, {Undefined})
DevelopmentInit ==
  StoreInit /\ canPersistCryptoKey /\ pbkdf2Iterations \in DevelopmentCtorOverrides
SpecDevelopment == DevelopmentInit /\ [][NextDevelopment]_vars

\* SpecTampered: Spec with the sentinel record alone, and with another
\* connection to the database that deletes the salt record or rewrites a
\* stored record, as the integrity tests do: with a ciphertext byte flipped,
\* with no ciphertext bytes left, with an IV of another length, or with
\* another version number
DeleteSaltRecord ==
  /\ salt # NoSalt
  /\ salt' = NoSalt
  /\ last' = Other
  /\ UNCHANGED <<data, storedKey, meta, db, encryptionKey, isPasswordProtected,
                 pbkdf2Iterations, canPersistCryptoKey>>
  /\ Track
  /\ UNCHANGED <<walletVars, stepVars>>
Tamperings == {"flipped", "empty", "iv", "version"}
TamperCiphertext(key, how) ==
  /\ data[key].present /\ data[key].ct = "ok"
  /\ data' = [data EXCEPT ![key].ct = how]
  /\ last' = Other
  /\ UNCHANGED <<salt, storedKey, meta, db, encryptionKey, isPasswordProtected,
                 pbkdf2Iterations, canPersistCryptoKey>>
  /\ Track
  /\ UNCHANGED <<walletVars, stepVars>>
NextTampered ==
  \/ NextOn({MNEMONIC}, {"a"}, {DevEnv}, {Undefined}, {Undefined})
  \/ DeleteSaltRecord
  \/ \E key \in {MNEMONIC}, how \in Tamperings : TamperCiphertext(key, how)

SpecTampered == DevStoreInit /\ [][NextTampered]_vars

\* SpecClock: Spec with the sentinel record alone, and with time passing
\* between the calls: Date.now() returns a later value after a tick
Tick ==
  /\ now < MaxNow
  /\ now' = now + 1
  /\ UNCHANGED <<vars, walletVars, inflight>>
NextClock ==
  \/ NextOn({MNEMONIC}, {"a"}, {DevEnv}, {Undefined}, {Undefined})
  \/ Tick
SpecClock == DevStoreInit /\ [][NextClock]_allVars

\* SpecInterleaved: one instance over a store with or without a password; a
\* setPassword or changePassword runs step by step, and get, set, delete and
\* exists run between its steps
NextInterleaved ==
  \/ \E password \in {"pw1", NoPassword} :
       inflight.op = "none" /\ Init(password, FALSE, DevEnv)
  \/ \E key \in DataKeys, value \in Plaintexts : Set(key, value)
  \/ \E key \in DataKeys : Get(key)
  \/ \E key \in DataKeys : Delete(key)
  \/ Exists
  \/ \E password \in Passwords : SetPasswordBegin(password)
  \/ \E oldPassword \in Passwords, newPassword \in Passwords :
       ChangePasswordBegin(oldPassword, newPassword)
  \/ ChangePasswordExport
  \/ DeriveNewKey
  \/ \E fail \in CommitFails : Commit(fail)
InterleavedInit == DevStoreInit /\ canPersistCryptoKey
SpecInterleaved == InterleavedInit /\ [][NextInterleaved]_allVars

\* the wallet layers run over a store that stays as constructed
WalletStoreInit == DevStoreInit /\ canPersistCryptoKey

\* SpecKeyManager: the key manager alone, called directly, with every input
\* of its signing, lookup and backup operations
NextKeyManager ==
  \/ FromMnemonic
  \/ Lock
  \/ \E op \in KeyManagerOps : KeyManagerCall(op)
  \/ \E address \in Addresses, protocol \in Protocols : SignMessage(address, protocol)
  \/ \E psbt \in Psbts : SignPsbt(psbt)
  \/ \E receiveWindow \in Windows, changeWindow \in Windows :
       SetAddressLookupConfig(receiveWindow, changeWindow)
  \/ \E address \in WalletAddresses \cup {ForeignAddress} : FindAddressPath(address)
  \/ \E exportPassword \in Passwords, field \in EnvelopeFields \cup {"none"},
        password \in Passwords :
       ImportBackup(exportPassword, field, password)
SpecKeyManager == WalletStoreInit /\ [][NextKeyManager]_allVars

\* SpecWallet: the connection of origins to the provider of an existing
\* wallet, with two provider ids, two origins and MaxPending getAddresses
\* requests with valid parameters waiting for their prompt
NextWallet ==
  \/ Unlock
  \/ Lock
  \/ \E id \in ProviderIds : Register(id)
  \/ \E id \in ProviderIds \cup {NoId} : Unregister(id)
  \/ \E o \in Origins : Navigate(o)
  \/ \E confirmAvailable \in BOOLEAN : RequestGetAddresses("valid", confirmAvailable)
  \/ \E i \in Slots, approved \in BOOLEAN : AnswerGetAddresses(i, approved)
SpecWallet == WalletStoreInit /\ [][NextWallet]_allVars


\* SpecProvider: every method of the provider, registered under one id and
\* called from one origin, with MaxPending requests waiting for their prompt,
\* and signMessage of the wallet called directly

NextProvider ==
  \/ Unlock
  \/ Lock
  \/ Register("p1")
  \/ \E address \in Addresses, protocol \in Protocols : SignMessage(address, protocol)
  \/ RequestGetInfo
  \/ \E purposes \in PurposesArgs, confirmAvailable \in BOOLEAN :
       RequestGetAddresses(purposes, confirmAvailable)
  \/ \E method \in {"sendTransfer", "unknownMethod"} : RequestOther(method)
  \/ \E address \in ProviderAddresses, protocol \in ProviderProtocols,
        confirmAvailable \in BOOLEAN :
       RequestSignMessage(address, protocol, confirmAvailable)
  \/ \E shape \in PsbtShapes, psbt \in ProviderPsbts, confirmAvailable \in BOOLEAN :
       RequestSignPsbt(shape, psbt, confirmAvailable)
  \/ \E i \in Slots, approved \in BOOLEAN : AnswerGetAddresses(i, approved)
  \/ \E i \in Slots, approved \in BOOLEAN : AnswerSign(i, approved)
SpecProvider == WalletStoreInit /\ [][NextProvider]_allVars


\* ------------------------------------------------ a fresh instance
\* new SecureStorage({pbkdf2Iterations: ctor}).init(password) on the stores as they are
FreshInit(password, ctor, env) == init(password, FALSE, ctor, env, NoKey, FALSE)

\* a fresh instance opened with `password` (NoPassword: without one), whatever
\* its constructor override and environment, returns v from get(key)
FreshGetIs(password, key, v) ==
  \A ctor \in CtorOverrides, env \in Envs :
    LET r == FreshInit(password, ctor, env)
    IN r.error = "none" /\ GetResult(r.data, r.encryptionKey, key) = v

\* a fresh instance opened with `password` cannot read the store: init throws,
\* or get throws on a stored record
FreshUnlockFails(password) ==
  \A ctor \in CtorOverrides, env \in Envs :
    LET r == FreshInit(password, ctor, env)
    IN \/ r.error # "none"
       \/ \E key \in DataKeys : GetResult(r.data, r.encryptionKey, key) = "error:decryption"

LifecycleOps == {"setPassword", "changePassword", "removePassword"}
Failed(op) == last.op = op /\ last.outcome = "failed"
Succeeded(op) == last.op = op /\ last.outcome = "ok"

\* the logical content of the stores: data key -> plaintext, "null" when absent
Content(d, key) == IF d[key].present THEN d[key].pt ELSE "null"
Contents == Plaintexts \cup {"null"}

\* -------------------------------------------------------------- claims

\* C1: when a password-lifecycle call (setPassword, changePassword,
\* removePassword) throws after its credential was verified, the persisted
\* data records, salt and metadata are the ones that were persisted before
\* the call.
C1_FailedCallLeavesStores ==
  [][(last'.outcome = "failed" /\ last'.op \in LifecycleOps)
       => (data' = data /\ salt' = salt /\ meta' = meta)]_vars

\* C2: when setPassword throws after the records were decrypted, the metadata
\* does not say hasPassword, no salt is persisted, the stored passwordless
\* key is the one stored before, and the instance holds its previous key, so
\* that get returns the previous plaintext of every key.
C2_FailedSetPasswordRollsBack ==
  [][Failed("setPassword")'
       => /\ ~meta'.hasPassword
          /\ salt' = NoSalt
          /\ storedKey' = storedKey
          /\ encryptionKey' = encryptionKey
          /\ \A key \in DataKeys :
               GetResult(data', encryptionKey', key) = GetResult(data, encryptionKey, key)]_vars

\* C3: when changePassword throws after the old password was verified, the
\* persisted salt, iteration count, password mode and records are unchanged,
\* and a fresh instance opened with the old password reads every record with
\* its previous plaintext.
C3_FailedChangeKeepsOldPassword ==
  [][Failed("changePassword")'
       => /\ salt' = salt /\ meta' = meta /\ data' = data
          /\ \A key \in DataKeys, v \in Plaintexts, old \in Passwords :
               (data[key].present /\ data[key].pt = v /\ last'.pw = old)
                 => FreshGetIs(old, key, v)']_vars

\* C4: when removePassword on a password-protected store throws after the
\* current password was verified, the salt is still the original one, the
\* metadata still says hasPassword, the key generated by the call is not
\* persisted, and a fresh instance opened with that password reads every
\* record with its previous plaintext.
C4_FailedRemoveKeepsProtection ==
  [][(Failed("removePassword")' /\ meta.present /\ meta.hasPassword)
       => /\ salt' = salt /\ salt' # NoSalt
          /\ meta'.present /\ meta'.hasPassword
          /\ storedKey' \in {storedKey, NoStoredKey}
          /\ \A key \in DataKeys, v \in Plaintexts, cur \in Passwords :
               (data[key].present /\ data[key].pt = v /\ last'.pw = cur)
                 => FreshGetIs(cur, key, v)']_vars

\* C5: after removePassword throws past the verification of its password, the
\* instance is still in password-protected mode and get on it returns for
\* every key what it returned before the call.
C5_FailedRemoveRestoresInstance ==
  [][Failed("removePassword")'
       => /\ isPasswordProtected'
          /\ \A key \in DataKeys :
               GetResult(data', encryptionKey', key) = GetResult(data, encryptionKey, key)]_vars

\* C6: changePassword and removePassword accept one current password at most:
\* in no state do they get past the verification with two different ones; and a
\* call that rejects its password changes neither the persisted stores nor the
\* instance's key.
AcceptedByChange ==
  {p \in Passwords : changePassword(p, p, Undefined, "none", DevEnv).error = "none"}
AcceptedByRemove ==
  {p \in Passwords : removePassword(p, "none", DevEnv).error = "none"}
RejectionChangesNothing(r) ==
  r.error = "Invalid password"
    => /\ <<r.data, r.salt, r.storedKey, r.meta>> = persisted
       /\ r.encryptionKey = encryptionKey
C6_OnlyTheActualPassword ==
  /\ Cardinality(AcceptedByChange) <= 1
  /\ Cardinality(AcceptedByRemove) <= 1
  /\ \A p \in Passwords, q \in Passwords :
       RejectionChangesNothing(changePassword(p, q, Undefined, "none", DevEnv))
  /\ \A p \in Passwords : RejectionChangesNothing(removePassword(p, "none", DevEnv))

\* C7: a setPassword, changePassword or removePassword that returns leaves the
\* key-to-plaintext map as it was: the same keys are stored, get on the same
\* instance returns the plaintext each key had, and so does get on a fresh
\* instance opened with the new credential (no password after removePassword).
NewCredential ==
  IF last.op = "setPassword" THEN last.pw
  ELSE IF last.op = "changePassword" THEN last.newpw
  ELSE NoPassword
C7_SuccessKeepsContent ==
  [][(last'.outcome = "ok" /\ last'.op \in LifecycleOps)
       => \A key \in DataKeys, v \in Contents, cred \in Passwords \cup {NoPassword} :
            (Content(data, key) = v /\ NewCredential' = cred)
              => /\ Content(data', key) = v
                 /\ GetResult(data', encryptionKey', key) = v
                 /\ FreshGetIs(cred, key, v)']_vars
C7_Witness ==
  /\ Succeeded("removePassword")
  /\ data[MNEMONIC].present /\ data["k1"].present
  /\ data[MNEMONIC].pt # data["k1"].pt

C9_SaltIffHasPassword == (salt # NoSalt) <=> (meta.present /\ meta.hasPassword)

C11_RecordedCountNeverLowered ==
  meta.pbkdf2Iterations # Undefined => meta.pbkdf2Iterations >= recorded

\* C12: a changePassword that returns on a store with a recorded count records
\* the maximum of the requested override and that count, and that count
\* itself when no override is requested.
RequestedOrCurrent ==
  IF last.opt = Undefined THEN last.from ELSE Max(last.opt, last.from)
C12_ChangeRecordsMax ==
  [][(Succeeded("changePassword")' /\ last'.from # Undefined)
       => meta'.pbkdf2Iterations = RequestedOrCurrent']_vars

\* C12, amended: as C12, and in a production-like runtime the recorded count
\* is raised to the default of 600,000 when the maximum is below it.
C12_ChangeRecordsMaxWithFloor ==
  [][(Succeeded("changePassword")' /\ last'.from # Undefined)
       => /\ encryptionKey'.iters = meta'.pbkdf2Iterations
          /\ meta'.pbkdf2Iterations =
               IF last'.prod THEN Max(RequestedOrCurrent', ITERATIONS)
               ELSE RequestedOrCurrent']_vars
C12_Witness ==
  /\ Succeeded("changePassword")
  /\ last.opt = HighIterations /\ last.from = ITERATIONS
  /\ meta.pbkdf2Iterations = HighIterations

\* C13: in a production-like runtime (NODE_ENV is production, or the bundle's
\* PROD flag is set) every count resolved for a store without a recorded count
\* is at least the default, whatever the constructor and environment overrides;
\* so is the count an init with a password derives its key with on such a
\* store, and so is every count a setPassword or changePassword records.
ProductionEnvs ==
  {e \in {Env(raw, nodeEnv, metaProd) :
            raw \in {Undefined, LowIterations, HighIterations},
            nodeEnv \in {"production", "test", "other"},
            metaProd \in BOOLEAN} : e.nodeEnv = "production" \/ e.metaProd}
C13_ProductionFloor ==
  /\ [](meta.pbkdf2Iterations = Undefined
          => \A ctor \in CtorOverrides, env \in ProductionEnvs :
               resolveIterations(meta, ctor, env) >= ITERATIONS)
  /\ [][(Succeeded("init")' /\ isPasswordProtected' /\ meta.pbkdf2Iterations = Undefined)
          => \A password \in Passwords, readOnly \in BOOLEAN, env \in Envs \cap ProductionEnvs :
               Init(password, readOnly, env) => encryptionKey'.iters >= ITERATIONS]_vars
  /\ [][(last'.outcome = "ok" /\ last'.op \in {"setPassword", "changePassword"} /\ last'.prod)
          => (meta'.pbkdf2Iterations >= ITERATIONS
              /\ encryptionKey'.iters = meta'.pbkdf2Iterations)]_vars
C13_Witness ==
  /\ Succeeded("setPassword") /\ last.prod
  /\ last.from = Undefined
  /\ pbkdf2Iterations = LowIterations
  /\ meta.pbkdf2Iterations = ITERATIONS

\* C14: on a store without a recorded count, in a runtime that is not
\* production-like, init(password) derives its key with, and (unless read-only)
\* records, the constructor override if one was given, otherwise the
\* environment override if one is set, otherwise the default of 600,000.
ClaimedIterations(ctor, env) ==
  IF ctor # Undefined THEN ctor
  ELSE IF env.raw # Undefined THEN env.raw
  ELSE ITERATIONS
C14_OverrideOrder ==
  [][(Succeeded("init")' /\ isPasswordProtected' /\ meta.pbkdf2Iterations = Undefined)
       => \A password \in Passwords, readOnly \in BOOLEAN, env \in DevelopmentEnvs :
            Init(password, readOnly, env)
              => /\ encryptionKey'.iters = ClaimedIterations(pbkdf2Iterations, env)
                 /\ ~readOnly
                      => meta'.pbkdf2Iterations = ClaimedIterations(pbkdf2Iterations, env)]_vars

\* C14, amended: as C14, with the environment override counted only when it is
\* a positive number, and with 1 in its place in a test runtime where
\* none is set.
NonProductionEnvs ==
  {Env(raw, nodeEnv, FALSE) :
     raw \in {Undefined, 0, LowIterations, HighIterations}, nodeEnv \in {"test", "other"}}
AmendedIterations(ctor, env) ==
  IF ctor # Undefined THEN ctor
  ELSE IF env.raw # Undefined /\ env.raw > 0 THEN env.raw
  ELSE IF env.raw = Undefined /\ env.nodeEnv = "test" THEN TestDefaultIterations
  ELSE ITERATIONS
C14_OverrideOrderWithTestDefault ==
  /\ [](meta.pbkdf2Iterations = Undefined
          => \A ctor \in CtorOverrides, env \in NonProductionEnvs :
               resolveIterations(meta, ctor, env) = AmendedIterations(ctor, env))
  /\ [][(Succeeded("init")' /\ isPasswordProtected' /\ meta.pbkdf2Iterations = Undefined)
          => \A password \in Passwords, readOnly \in BOOLEAN, env \in DevelopmentEnvs :
               Init(password, readOnly, env)
                 => /\ encryptionKey'.iters = AmendedIterations(pbkdf2Iterations, env)
                    /\ ~readOnly
                         => meta'.pbkdf2Iterations = AmendedIterations(pbkdf2Iterations, env)]_vars
C14_Witness ==
  /\ Succeeded("init") /\ isPasswordProtected
  /\ pbkdf2Iterations = Undefined
  /\ encryptionKey.iters = LowIterations
  /\ meta.pbkdf2Iterations = LowIterations
  /\ recorded = LowIterations

\* C15: init() without a password on a password-protected store that holds
\* the wallet payload throws the password-required error, leaves the instance
\* without an active key, and leaves salt, stored key, metadata and data as
\* they were.
ProtectedWithPayload == meta.present /\ meta.hasPassword /\ data[MNEMONIC].present
PasswordRequired == "Password required to unlock storage"
C15_PasswordRequired ==
  [][(ProtectedWithPayload /\ \E readOnly \in BOOLEAN : Init(NoPassword, readOnly, DevEnv))
       => /\ last'.outcome = PasswordRequired
          /\ persisted' = persisted
          /\ encryptionKey' = NoKey]_vars

\* C15, amended: as C15, with the instance's key and mode left as they were
\* before the call: an instance that held no key holds none afterwards, an
\* unlocked instance stays unlocked.
C15_PasswordRequiredKeyKept ==
  [][(ProtectedWithPayload /\ \E readOnly \in BOOLEAN : Init(NoPassword, readOnly, DevEnv))
       => /\ last'.outcome = PasswordRequired
          /\ persisted' = persisted
          /\ encryptionKey' = encryptionKey
          /\ isPasswordProtected' = isPasswordProtected]_vars
C15_Witness ==
  /\ last.op = "init" /\ last.outcome = PasswordRequired
  /\ ProtectedWithPayload
  /\ encryptionKey = NoKey

\* C16: init(password) on a passwordless store that holds the wallet payload
\* is refused and switches no mode: metadata (hasPassword false), salt, stored
\* key and data stay as they were, the instance keeps its key, and a fresh
\* passwordless instance reads what it read before; on such a store only a
\* setPassword that returns makes the metadata say hasPassword.
PasswordlessWithPayload == meta.present /\ ~meta.hasPassword /\ data[MNEMONIC].present
CreatedWithoutPassword == "Wallet created without password"
C16_NoSilentModeSwitch ==
  /\ [][(PasswordlessWithPayload
           /\ \E password \in Passwords, readOnly \in BOOLEAN : Init(password, readOnly, DevEnv))
          => /\ last'.outcome = CreatedWithoutPassword
             /\ persisted' = persisted
             /\ ~meta'.hasPassword
             /\ encryptionKey' = encryptionKey /\ isPasswordProtected' = isPasswordProtected
             /\ \A key \in DataKeys, v \in Contents :
                  FreshGetIs(NoPassword, key, v) => FreshGetIs(NoPassword, key, v)']_vars
  /\ [][(PasswordlessWithPayload /\ meta'.present /\ meta'.hasPassword)
          => Succeeded("setPassword")']_vars

\* C17: exists() returns true if and only if the sentinel mnemonic record is in
\* the data store; metadata, a salt, a stored key or another record do not
\* make it true.
C17_ExistsIffSentinel == exists(data) <=> data[MNEMONIC].present
C17_Witness ==
  /\ ~exists(data)
  /\ meta.present /\ salt # NoSalt /\ storedKey # NoStoredKey
  /\ data["k1"].present

\* C18: as long as no wallet payload is stored, whatever init or unlock
\* attempts came before, creating a wallet succeeds in either mode: a writable
\* init with or without a password returns, on this instance and on a fresh
\* one, with the key a later unlock in that mode will use, and the metadata's
\* hasPassword then says whether that init was given a password.
CreationSucceeds(r, password) ==
  /\ r.error = "none"
  /\ r.isPasswordProtected = (password # NoPassword)
  /\ r.meta.present /\ r.meta.hasPassword = (password # NoPassword)
  /\ password # NoPassword
       => /\ r.salt # NoSalt
          /\ r.encryptionKey = PwKey(password, r.salt, r.meta.pbkdf2Iterations)
  /\ password = NoPassword
       => /\ r.storedKey # NoStoredKey
          /\ r.encryptionKey = materializeStoredKey(r.storedKey)
ProtectedWithoutSalt == meta.present /\ meta.hasPassword /\ salt = NoSalt
MissingSalt == "Missing salt for password-protected storage"
C19_MissingSalt ==
  [][(ProtectedWithoutSalt
        /\ \E password \in Passwords, readOnly \in BOOLEAN : Init(password, readOnly, DevEnv))
       => /\ last'.outcome = MissingSalt
          /\ last'.outcome # "error:decryption"
          /\ salt' = NoSalt
          /\ encryptionKey' = NoKey]_vars

\* C19, amended: as C19, with the instance's key and mode left as they were
\* before the call (an instance that held no key holds none afterwards), and
\* with no persisted record changed.
C19_MissingSaltKeyKept ==
  [][(ProtectedWithoutSalt
        /\ \E password \in Passwords, readOnly \in BOOLEAN : Init(password, readOnly, DevEnv))
       => /\ last'.outcome = MissingSalt
          /\ last'.outcome # "error:decryption"
          /\ salt' = NoSalt
          /\ persisted' = persisted
          /\ encryptionKey' = encryptionKey
          /\ isPasswordProtected' = isPasswordProtected]_vars
C19_Witness ==
  /\ last.op = "init" /\ last.outcome = MissingSalt
  /\ ProtectedWithoutSalt
  /\ data[MNEMONIC].present
  /\ encryptionKey = NoKey


\* C20: get on a record whose stored ciphertext was modified, and get under a
\* key derived from a wrong password, both fail with the one generic
\* decryption error: neither returns a plaintext, and the two failures carry
\* the same error.
CiphertextModified(key) == data[key].present /\ data[key].ct # "ok"
WrongPasswordKey(key) ==
  /\ data[key].present /\ data[key].key.kind = "pw"
  /\ encryptionKey.kind = "pw" /\ encryptionKey.pw # data[key].key.pw
C20_SingleDecryptionError ==
  \A key \in DataKeys :
    (encryptionKey # NoKey /\ (CiphertextModified(key) \/ WrongPasswordKey(key)))
      => GetResult(data, encryptionKey, key) = "error:decryption"


SeedOperations == {"exportMnemonic", "deriveAddress", "getAddresses", "signMessage", "signPsbt"}
C22_LockedUntilUnlock ==
  /\ [](reply.afterLock => ~initialized)
  /\ [][(reply'.method \in SeedOperations /\ reply.afterLock)
          => /\ reply'.code = "LockedError"
             /\ reply'.out = "none" /\ reply'.signed = {}
             /\ reply'.afterLock]_allVars
C22_Witness ==
  /\ reply.afterLock
  /\ reply.method = "signPsbt" /\ reply.code = "LockedError"


\* C23: signPsbt adds a signature to a Taproot input only if at most one
\* sighash type was requested for it, its tapInternalKey, when present, is the
\* derived key, and the key of its witness script is the derived key; when a
\* Taproot input fails one of these the call is rejected, with
\* IncompatibleInputError when the wallet is unlocked, and no input is signed
TaprootInputRejected(psbt) ==
  \E i \in 1 .. Len(psbt) :
    /\ psbt[i].kind = "taproot"
    /\ \/ psbt[i].sighashTypes > 1
       \/ psbt[i].tapInternalKey = "other"
       \/ psbt[i].witnessKey # "derived"
C23_TaprootGuards ==
  reply.method = "signPsbt" =>
    /\ \A i \in reply.signed :
         reply.arg[i].kind = "taproot" =>
           /\ reply.arg[i].sighashTypes <= 1
           /\ reply.arg[i].tapInternalKey \in {"absent", "derived"}
           /\ reply.arg[i].witnessKey = "derived"
    /\ TaprootInputRejected(reply.arg) =>
         /\ reply.code # "ok"
         /\ reply.unlocked => reply.code = "IncompatibleInputError"
         /\ reply.signed = {}
         /\ reply.out = "none"
\* an unlocked wallet refused a PSBT whose second input is a Taproot input with
\* a foreign tapInternalKey and whose first input would pass
C23_Witness ==
  /\ reply.method = "signPsbt" /\ reply.unlocked
  /\ reply.code = "IncompatibleInputError"
  /\ Len(reply.arg) = 2
  /\ reply.arg[1] \in PassingInputs
  /\ reply.arg[2].tapInternalKey = "other"
  /\ reply.arg[2].sighashTypes = 1 /\ reply.arg[2].witnessKey = "derived"

\* C24: importBackup recomputes the HMAC of the envelope as received; an
\* envelope with any one field changed (the unencrypted network field
\* included), or a password other than the one of the export, ends with
\* IntegrityError, nothing was decrypted, and the seed of the key manager and
\* the store are as they were before the call
MacMismatch(r) == r.arg # "none" \/ r.protocol = "other password"
SignMessageServed ==
  /\ reply.method = "signMessage" /\ reply.unlocked
  /\ reply.prompted => reply.approved
  /\ reply.code # "prompt"
C25_TaprootProtocol ==
  SignMessageServed =>
    /\ (reply.arg = "taproot" /\ reply.requested = "omitted")
         => reply.code = "ok" /\ reply.out = "bip322-simple"
    /\ (reply.arg = "taproot" /\ reply.requested = "ecdsa")
         => /\ reply.out = "none"
            /\ reply.code = IF reply.prompted THEN "INVALID_PARAMS"
                            ELSE "Taproot addresses require bip322-simple signing"
    /\ (reply.arg = "taproot" /\ reply.requested = "bip322-simple")
         => reply.code = "ok" /\ reply.out = "bip322-simple"
    /\ reply.arg = "segwit"
         => /\ reply.code = "ok"
            /\ reply.out = IF reply.requested = "omitted" THEN "ecdsa" ELSE reply.requested
\* the provider signed for the Taproot address on a request that named no
\* protocol, after the user approved
C25_Witness ==
  /\ SignMessageServed /\ reply.prompted /\ reply.approved
  /\ reply.arg = "taproot" /\ reply.requested = "omitted"
  /\ reply.out = "bip322-simple"

\* C26: getAddresses returns addresses to an origin only if the origin held a
\* grant given under the current registration (its connect prompt was approved
\* since the grants were last cleared) or the user approved the connect prompt
\* of this very request; a request that reaches the grant test (wallet
\* unlocked, provider registered, confirmation available) shows the prompt
\* exactly when its origin holds no grant; the grant of one origin never
\* serves another
RegisteredId == IF currentOptions # NoId THEN currentOptions ELSE lastProviderId
GetAddressesRequested ==
  /\ reply'.method = "getAddresses"
  /\ pending' = pending \/ reply'.code = "prompt"
C26_GrantOrApproval ==
  /\ [](reply.method = "getAddresses" /\ reply.out = "addresses"
          => \/ reply.hadGrant /\ reply.origin \in reply.approvedSince
             \/ reply.prompted /\ reply.approved)
  /\ [][(GetAddressesRequested /\ initialized /\ RegisteredId # NoId
           /\ reply'.code # "INTERNAL_ERROR")
          => (reply'.prompted <=> ~hasGrant(accessGrants, heap, RegisteredId, origin))]_allVars

\* C27: after lock (and the unlock that follows), after unregister and after
\* register no origin holds a grant: the first getAddresses that an origin
\* makes after any of them, on an unlocked wallet with a registered provider
\* and a confirmation UI, shows the connect prompt
C27_PromptAfterReset ==
  [][(GetAddressesRequested /\ initialized /\ RegisteredId # NoId
        /\ reply'.code # "INTERNAL_ERROR"
        /\ origin \notin reply.requestedSince)
       => reply'.prompted /\ reply'.out = "none"]_allVars

\* C28: when the user rejects the connect prompt, getAddresses ends with
\* USER_REJECTED, returns no address, calls no wallet function and stores no
\* grant: every origin holds after the rejection the grants it held before,
\* so an origin that had none is prompted again by its next getAddresses
ConnectRejected ==
  /\ reply'.method = "getAddresses" /\ reply'.code # "prompt"
  /\ reply'.prompted /\ ~reply'.approved
C28_RejectionStoresNoGrant ==
  [][ConnectRejected
       => /\ reply'.code = "USER_REJECTED"
          /\ reply'.out = "none" /\ ~reply'.walletCalled
          /\ accessGrants' = accessGrants
          /\ \A id \in ProviderIds, o \in Origins :
               hasGrant(accessGrants', heap', id, o) <=> hasGrant(accessGrants, heap, id, o)]_allVars
\* a rejected connect prompt on an unlocked wallet, after which the origin of
\* the request holds no grant under the registered id
C28_Witness ==
  /\ reply.method = "getAddresses" /\ reply.code = "USER_REJECTED"
  /\ initialized /\ RegisteredId # NoId
  /\ ~hasGrant(accessGrants, heap, RegisteredId, reply.origin)

\* C29: a request of any method other than getInfo made while the wallet is
\* locked ends with UNAUTHORIZED: no prompt is shown and none is left waiting,
\* no grant is created, and no signing or address function of the wallet is
\* called. A request step is told from the answer to a prompt by its reply:
\* it carries the origin of the caller and, if it has prompted, still waits
ProviderRequestOtherThanGetInfo ==
  /\ reply'.origin # "none"
  /\ reply'.method \in {"getAddresses", "signMessage", "signPsbt", "sendTransfer",
                        "unknownMethod"}
  /\ reply'.prompted => reply'.code = "prompt"
C29_LockedRequestsUnauthorized ==
  [][(~initialized /\ ProviderRequestOtherThanGetInfo)
       => /\ reply'.code = "UNAUTHORIZED"
          /\ ~reply'.prompted /\ ~reply'.walletCalled
          /\ reply'.out = "none" /\ reply'.signed = {}
          /\ UNCHANGED <<pending, accessGrants, heap, initialized>>]_allVars
\* a signPsbt request with valid parameters and a confirmation UI was refused
\* on a locked wallet whose provider is registered
C29_Witness ==
  /\ ~initialized /\ RegisteredId # NoId
  /\ reply.method = "signPsbt" /\ reply.origin # "none"
  /\ reply.code = "UNAUTHORIZED"

\* C30: whatever window sizes are configured, findAddressPath on an unlocked
\* wallet derives for each of the four path types at most LookupCap receive
\* and LookupCap change addresses, and no more than the configured sizes; an
\* address of the wallet whose index lies at or beyond the cap or the
\* configured size of its chain, and an address that is not the wallet's,
\* gives null and no error; an address inside both is found
ConfiguredWindow(a) ==
  IF a.change = 0 THEN addressLookup.receiveWindow ELSE addressLookup.changeWindow
C30_ClampedLookup ==
  (reply.method = "findAddressPath" /\ reply.unlocked) =>
    /\ reply.code = "ok"
    /\ reply.scanned <= Cardinality(PathTypes) * 2 * LookupCap
    /\ reply.scanned <= Cardinality(PathTypes)
                          * (addressLookup.receiveWindow + addressLookup.changeWindow)
    /\ IF /\ reply.arg \in WalletAddresses
          /\ reply.arg.index < LookupCap
          /\ reply.arg.index < ConfiguredWindow(reply.arg)
       THEN reply.path = reply.arg
       ELSE reply.path = NoPath /\ reply.out = "none"
\* with a receive window configured above the cap, the lookup of a receive
\* address whose index is inside the configured window but not inside the cap
\* returned null
C30_Witness ==
  /\ reply.method = "findAddressPath" /\ reply.unlocked /\ reply.code = "ok"
  /\ addressLookup.receiveWindow > LookupCap
  /\ reply.arg \in WalletAddresses /\ reply.arg.change = 0
  /\ reply.arg.index >= LookupCap /\ reply.arg.index < addressLookup.receiveWindow
  /\ reply.path = NoPath

\* C31: in every state the persisted data records all decrypt under one key,
\* and that key is the one the persisted state designates: a key derived from
\* one password with the persisted salt and the recorded iteration count when
\* the metadata says the store has a password, the stored passwordless key
\* otherwise
DesignatedKeys ==
  IF meta.present /\ meta.hasPassword
  THEN {PwKey(pw, salt, meta.pbkdf2Iterations) : pw \in Passwords}
  ELSE IF storedKey.form # "none" THEN {materializeStoredKey(storedKey)}
  ELSE {}
C31_OneKeyForAllRecords ==
  HasRecords(data) =>
    \E k \in DesignatedKeys : \A key \in DataKeys : data[key].present => CanDecrypt(k, data[key])

\* C32 (SpecInterleaved): a call that runs while setPassword or changePassword
\* is suspended behaves as if it ran before or after it.  A get of a stored
\* record, during a lifecycle call that began with every record readable,
\* returns the record's plaintext; and the commit of the lifecycle call keeps
\* the plaintext of every record as the interleaved set and delete calls left it
PlainContents(d) == [key \in DataKeys |-> IF d[key].present THEN d[key].pt ELSE "absent"]
Committed == inflight.step = "commit" /\ inflight'.op = "none" /\ last'.outcome = "ok"
InterleavedGetServed ==
  (inflight.op # "none" /\ inflight.sound) =>
    \A key \in DataKeys : data[key].present => GetError(data, encryptionKey, key) = "none"
C32_InterleavedAsSerial ==
  /\ []InterleavedGetServed
  /\ [][Committed => PlainContents(data') = PlainContents(data)]_allVars

\* C33 (SpecWallet): no grant survives a lock, whether or not a connect prompt
\* was waiting when the wallet locked: a locked wallet holds no grant, a
\* connect prompt answered on a locked wallet returns no address, and no
\* origin holds a grant when the wallet has just been unlocked
NoGrants ==
  \A id \in ProviderIds, o \in Origins : ~hasGrant(accessGrants, heap, id, o)
C33_NoGrantSurvivesLock ==
  /\ ~initialized => NoGrants
  /\ reply.method = "unlock" => NoGrants
  /\ (reply.method = "getAddresses" /\ reply.prompted /\ reply.code # "prompt"
        /\ ~reply.unlocked) => reply.out = "none"

\* C34 (Spec): an init with readOnly: true, with or without a password,
\* whether it returns or throws, leaves the data store and the meta store as
\* they were: no salt, no stored key and no metadata row is created or deleted
ReadOnlyInit == \E password \in Passwords \cup {NoPassword} : Init(password, TRUE, DevEnv)
C34_ReadOnlyInitWritesNothing == [][(last'.op = "init" /\ ReadOnlyInit) => UNCHANGED persisted]_vars

\* C35 (Spec): an init without password on a store that holds the wallet
\* payload and no stored key throws, leaves the meta store without a stored key
\* and leaves the instance's key as it was; and an init without password
\* stores a newly generated key only on a store without wallet payload
PasswordlessInit == \E readOnly \in BOOLEAN : Init(NoPassword, readOnly, DevEnv)
C35_NoKeyForOrphanedPayload ==
  [][(last'.op = "init" /\ PasswordlessInit) =>
       /\ (hasWalletPayload(data) /\ storedKey.form = "none")
            => /\ last'.outcome # "ok"
               /\ storedKey' = storedKey
               /\ encryptionKey' = encryptionKey
       /\ storedKey'.id # storedKey.id => ~hasWalletPayload(data)]_vars
C35_Witness ==
  /\ last.op = "init"
  /\ last.outcome = "Missing encryption key for passwordless wallet"
  /\ hasWalletPayload(data) /\ storedKey.form = "none"

\* C36 (Spec): on an instance that holds no key (after close() or clear(), and
\* until an init returns), a get, set, delete, setPassword, changePassword or
\* removePassword changes nothing in the data store and the meta store
UninitializedCall ==
  \/ \E key \in DataKeys : Get(key) \/ Delete(key)
  \/ \E key \in DataKeys, value \in Plaintexts : Set(key, value)
  \/ \E password \in Passwords, fail \in SetPasswordFails : SetPassword(password, fail, DevEnv)
  \/ \E oldPassword \in Passwords, newPassword \in Passwords, fail \in ChangePasswordFails :
       ChangePassword(oldPassword, newPassword, Undefined, fail, DevEnv)
  \/ \E currentPassword \in Passwords, fail \in RemovePasswordFails :
       RemovePassword(currentPassword, fail, DevEnv)
C36_ClosedInstanceWritesNothing ==
  [][(encryptionKey.kind = "none" /\ last.op \in {"close", "clear"} /\ UninitializedCall)
       => UNCHANGED persisted]_vars

\* C37 (Spec): when setPassword, changePassword or removePassword ends,
\* by return or by throw, no buffer that it decrypted holds plaintext
C37_PlaintextWiped == last.unwiped = {}

\* C38 (SpecTampered): get on a stored record with an IV of the wrong length,
\* without ciphertext bytes or with an unsupported version fails with a
\* validation error, which is not the generic decryption error, and
\* crypto.subtle.decrypt is not called for it
Malformed(rec) == rec.present /\ rec.ct \in {"iv", "empty", "version"}
C38_MalformedRecordRejected ==
  \A key \in DataKeys :
    (encryptionKey # NoKey /\ Malformed(data[key]))
      => /\ GetResult(data, encryptionKey, key) = "error:invalid-payload"
         /\ GetError(data, encryptionKey, key) # "error:decryption"
         /\ ~DecryptAttempted(encryptionKey, data[key])
C38_Witness ==
  /\ encryptionKey # NoKey /\ db
  /\ data[MNEMONIC].present /\ data[MNEMONIC].ct = "iv"
  /\ data[MNEMONIC].key = encryptionKey
  /\ GetError(data, encryptionKey, MNEMONIC) = "error:invalid-payload"

\* C39 (SpecProvider): a signMessage or signPsbt request calls the wallet's
\* signing function only after its own prompt was shown and approved, and
\* returns a signature or a signed PSBT only from that call; a request whose
\* prompt was rejected ends with USER_REJECTED, without a call of the wallet
\* and without a result
ProviderSignEnded ==
  /\ reply.method \in {"signMessage", "signPsbt"}
  /\ reply.code # "prompt"
  /\ reply.prompted \/ reply.origin # "none"
C39_SignOnlyAfterApproval ==
  ProviderSignEnded =>
    /\ reply.walletCalled => reply.prompted /\ reply.approved
    /\ reply.out # "none" => reply.walletCalled
    /\ (reply.prompted /\ ~reply.approved)
         => reply.code = "USER_REJECTED" /\ ~reply.walletCalled /\ reply.out = "none"
C39_Witness ==
  /\ reply.method = "signPsbt" /\ reply.prompted /\ ~reply.approved
  /\ reply.code = "USER_REJECTED" /\ reply.unlocked

\* C40 (SpecClock): every set, delete, markBackupCompleted, setPassword,
\* changePassword and removePassword that returns leaves a metadata row whose
\* updatedAt is the time of the call and is not below any updatedAt the store
\* held before, and whose createdAt is the one the row had before the call
MutatingCallReturned ==
  \/ now' = now /\ last'.op \in LifecycleOps /\ last'.outcome = "ok"
  \/ /\ last'.op = "other"
     /\ \/ MarkBackupCompleted
        \/ \E key \in DataKeys : Delete(key)
        \/ encryptionKey # NoKey /\ \E key \in DataKeys, value \in Plaintexts : Set(key, value)
====
